---- MODULE Spec2Model ----
(***************************************************************************)
(* Occupancy decode, projection and voxelization of the viz_demo apps.     *)
(*                                                                         *)
(* Units.  Heights are integers in units of 0.05 m (3.5 m = 70, the 0.1 m  *)
(* colour bin = 2), so that a voxel centre zMin + (z + 0.5) * voxelSizeZ   *)
(* is exact for every voxel height that is a multiple of 0.1 m.            *)
(* Occupancy values and thresholds are integers in units of 0.01           *)
(* (0.5 = 50, 0.01 = 1).  Arithmetic is exact: floating-point rounding is  *)
(* not modelled.                                                           *)
(***************************************************************************)
EXTENDS Integers, Sequences, FiniteSets, TLC

VARIABLES
    pc,            \* position of the harness / app
    occ,           \* occupancyData handed to a renderer or a projection
    options,       \* occRenderOptions
    group,         \* what visualizeOccupancyWithCubes (Occupancy3DRenderer) built
    prev,          \* the previous page load: its occ, options and group
    groupCompare,  \* what CompareMultiViewRenderer's voxelizer built
    groupVolume,   \* what VolumeRenderer's voxelizer built
    coord,         \* a grid triple <<x, y, z>>
    other,         \* a second grid triple
    idx,           \* offset of coord
    idxOther,      \* offset of other
    back,          \* triple recovered from idx
    indexingMode,  \* the indexingMode argument of the projection calls
    zIndex,        \* the zIndex argument of extractZSlice
    maxMap,        \* what projectMaxOccupancy returned
    meanMap,       \* what projectMeanOccupancy returned
    slice,         \* what extractZSlice returned, or that it threw
    server,        \* what the URLs serve: the JSON documents and the binary file
    loader,        \* which loadOccupancyData is running
    jsonPath,      \* the jsonPath argument of the running call
    metadata,      \* the parsed metadata
    warned,        \* whether console.warn was called
    result,        \* what loadOccupancyData returned, or the error it threw
    compareApp,    \* the compare app: selectors, panes, cache, loads in flight
    view,          \* an OccupancyView: its fields
    renderer,      \* a 3D renderer: its callbacks and whether it was disposed
    panels,        \* an app's loading indicator, main view and error panel
    autoheight     \* iframe_autoheight: the pending frame and the posted heights

vars == <<pc, occ, options, group, prev, groupCompare, groupVolume,
          coord, other, idx, idxOther, back,
          indexingMode, zIndex, maxMap, meanMap, slice,
          server, loader, jsonPath, metadata, warned, result,
          compareApp, view, renderer, panels, autoheight>>

uiVars == <<compareApp, view, renderer, panels, autoheight>>

loadVars == <<server, loader, jsonPath, metadata, warned, result>>

projVars == <<indexingMode, zIndex, maxMap, meanMap, slice>>
indexVars == <<coord, other, idx, idxOther, back>>

(***************************************************************************)
(* Bounds of the model.                                                    *)
(***************************************************************************)
MaxDim == 2
MaxOccupied == 2
MaxTruncated == 1
MaxCells == 8
MaxLayers == 8

(***************************************************************************)
(* JavaScript values.                                                      *)
(***************************************************************************)
\* A number as JavaScript holds it: <<v>> for the finite number v, and <<>>
\* (Undef) for what Number() does not turn into a finite number: a missing
\* option, undefined, NaN.
Undef == <<>>
Num(v) == <<v>>
\* NaN given as a value (an option set to NaN): a pair, which is neither
\* absent nor a finite number.
NaN == <<0, 0>>
\* Number.isFinite(Number(v))
IsFinite(v) == Len(v) = 1
None == "none"

Max(a, b) == IF a >= b THEN a ELSE b
Min(a, b) == IF a <= b THEN a ELSE b

\* a < b as JavaScript evaluates it.
JsLessThan(a, b) == IsFinite(a) /\ IsFinite(b) /\ a[1] < b[1]

\* a <= b as JavaScript evaluates it: false when an operand is undefined/NaN.
JsLessEq(a, b) == IsFinite(a) /\ IsFinite(b) /\ a[1] <= b[1]

\* Number(v), replaced by d when it is not finite.
FiniteOr(v, d) == IF IsFinite(v) THEN v[1] ELSE d

\* typedArray[i]: undefined beyond the end (i is 0-based).
At(arr, i) == IF i >= 0 /\ i < Len(arr) THEN Num(arr[i + 1]) ELSE Undef

(***************************************************************************)
(* Canonical index mapping.                                                *)
(***************************************************************************)
NumCells(shape) == shape[1] * shape[2] * shape[3]

GridTriples(shape) ==
    (0 .. shape[1] - 1) \X (0 .. shape[2] - 1) \X (0 .. shape[3] - 1)

\* The offset with the stride of x taken from nx.
LinearIndexSwappedStride(x, y, z, shape) == z + y * shape[3] + x * shape[3] * shape[1]

\* const idx = z + y * nz + x * nz * ny;
LinearIndex(x, y, z, shape) == z + y * shape[3] + x * shape[3] * shape[2]

\* x = floor(idx / xyStride); rem = idx - x*xyStride; y = floor(rem / nz); z = rem - y*nz
InverseIndex(i, shape) ==
    LET xyStride == shape[3] * shape[2]
        x == i \div xyStride
        rem == i - x * xyStride
        y == rem \div shape[3]
        z == rem - y * shape[3]
    IN  <<x, y, z>>

GridShapes == (1 .. MaxDim) \X (1 .. MaxDim) \X (1 .. MaxDim)

\* The grid shapes of the scenes: at most MaxCells voxels.
SceneShapes == {shape \in GridShapes : NumCells(shape) <= MaxCells}

(***************************************************************************)
(* visualizeOccupancyWithCubes of Occupancy3DRenderer.                      *)
(***************************************************************************)
\* Math.min(zMax, 3.5), in units of 0.05 m
DefaultZCap == 70
\* binSize = 0.1, in units of 0.05 m
BinSize == 2
\* if (!Number.isFinite(threshold)) threshold = 0.5, in units of 0.01
DefaultThreshold == 50

\* occupancyData.encoding || (occupancyBits ? 'bitset' : 'raw')
OccEncoding(o) ==
    IF "encoding" \in DOMAIN o THEN o.encoding
    ELSE IF "occupancyBits" \in DOMAIN o THEN "bitset" ELSE "raw"

\* voxelSizeZ = (zMax - zMin) / nz
VoxelSizeZ(o) == (o.bounds.z[2] - o.bounds.z[1]) \div o.gridShape[3]

\* worldZ = zMin + (z + 0.5) * voxelSizeZ
WorldZ(o, z) == o.bounds.z[1] + ((2 * z + 1) * VoxelSizeZ(o)) \div 2

\* zBin = Math.floor(worldZ / binSize)
ZBin(worldZ) == worldZ \div BinSize

\* The threshold with no clamp at 0.
EffectiveThresholdUnclamped(opts) == FiniteOr(opts.threshold, DefaultThreshold)

\* threshold = Number(options.threshold); 0.5 when not finite; Math.max(0, threshold)
EffectiveThreshold(opts) == Max(0, FiniteOr(opts.threshold, DefaultThreshold))

\* The z window with one layer dropped whatever dropTopLayers is.
ZWindowDropOnce(o, opts) ==
    LET zMin == o.bounds.z[1]
        zMax == o.bounds.z[2]
        min0 == FiniteOr(opts.zFilterMin, zMin)
        max0 == FiniteOr(opts.zFilterMax, Min(zMax, DefaultZCap))
        dropTopLayers == Max(0, FiniteOr(opts.dropTopLayers, 0))
        max1 == IF dropTopLayers > 0 THEN max0 - VoxelSizeZ(o) ELSE max0
        min2 == Max(zMin, min0)
        max2 == Min(zMax, max1)
        max3 == IF max2 <= min2 THEN Min(zMax, min2 + VoxelSizeZ(o)) ELSE max2
    IN  [zFilterMin |-> min2, zFilterMax |-> max3]

\* The z window, lines 45-67.
ZWindow(o, opts) ==
    LET zMin == o.bounds.z[1]
        zMax == o.bounds.z[2]
        defaultZFilterMin == zMin
        defaultZFilterMax == Min(zMax, DefaultZCap)
        min0 == FiniteOr(opts.zFilterMin, defaultZFilterMin)
        max0 == FiniteOr(opts.zFilterMax, defaultZFilterMax)
        dropTopLayers == Max(0, FiniteOr(opts.dropTopLayers, 0))
        max1 == IF dropTopLayers > 0 THEN max0 - dropTopLayers * VoxelSizeZ(o) ELSE max0
        min2 == Max(zMin, min0)
        max2 == Min(zMax, max1)
        max3 == IF max2 <= min2 THEN Min(zMax, min2 + VoxelSizeZ(o)) ELSE max2
    IN  [zFilterMin |-> min2, zFilterMax |-> max3]

\* addVoxel: nothing outside the window, else one record
AddVoxel(o, win, x, y, z) ==
    LET worldZ == WorldZ(o, z)
    IN  IF worldZ < win.zFilterMin \/ worldZ > win.zFilterMax
        THEN <<>>
        ELSE << [x |-> x, y |-> y, z |-> z, worldZ |-> worldZ] >>

\* The dense loops skipping only the values below the threshold.
RECURSIVE DenseLoopKeepingEqual(_, _, _, _, _, _)
DenseLoopKeepingEqual(o, threshold, win, x, y, z) ==
    IF x >= o.gridShape[1] THEN <<>>
    ELSE IF y >= o.gridShape[2] THEN DenseLoopKeepingEqual(o, threshold, win, x + 1, 0, 0)
    ELSE IF z >= o.gridShape[3] THEN DenseLoopKeepingEqual(o, threshold, win, x, y + 1, 0)
    ELSE LET i == LinearIndex(x, y, z, o.gridShape)
             p == At(o.occupancy, i)
             here == IF i >= Len(o.occupancy) THEN <<>>
                     ELSE IF JsLessThan(p, Num(threshold)) THEN <<>>
                     ELSE AddVoxel(o, win, x, y, z)
         IN  here \o DenseLoopKeepingEqual(o, threshold, win, x, y, z + 1)

\* The dense loops, lines 109-119, from (x, y, z) on.
RECURSIVE DenseLoop(_, _, _, _, _, _)
DenseLoop(o, threshold, win, x, y, z) ==
    IF x >= o.gridShape[1] THEN <<>>
    ELSE IF y >= o.gridShape[2] THEN DenseLoop(o, threshold, win, x + 1, 0, 0)
    ELSE IF z >= o.gridShape[3] THEN DenseLoop(o, threshold, win, x, y + 1, 0)
    ELSE LET i == LinearIndex(x, y, z, o.gridShape)
             p == At(o.occupancy, i)
             here == IF i >= Len(o.occupancy) THEN <<>>
                     ELSE IF JsLessEq(p, Num(threshold)) THEN <<>>
                     ELSE AddVoxel(o, win, x, y, z)
         IN  here \o DenseLoop(o, threshold, win, x, y, z + 1)

RECURSIVE Pow2(_)
Pow2(n) == IF n = 0 THEN 1 ELSE 2 * Pow2(n - 1)

\* The bit counted from the most significant end.
BitIsSetMsbFirst(byteVal, bit) == (byteVal \div Pow2(7 - bit)) % 2 = 1

\* (byteVal & (1 << bit)) !== 0
BitIsSet(byteVal, bit) == (byteVal \div Pow2(bit)) % 2 = 1

\* Number(occupancyData.numVoxels) || (nx * ny * nz)
NumVoxelsOf(o) ==
    IF o.numVoxels = Undef \/ o.numVoxels = Num(0) THEN NumCells(o.gridShape)
    ELSE o.numVoxels[1]

\* The bitset loops, lines 94-107, from (byteIdx, bit) on.
RECURSIVE BitsetLoop(_, _, _, _)
BitsetLoop(o, win, byteIdx, bit) ==
    IF byteIdx >= Len(o.occupancyBits) THEN <<>>
    ELSE LET byteVal == o.occupancyBits[byteIdx + 1]
         IN  IF byteVal = 0 \/ bit >= 8 THEN BitsetLoop(o, win, byteIdx + 1, 0)
             ELSE IF ~BitIsSet(byteVal, bit) THEN BitsetLoop(o, win, byteIdx, bit + 1)
             ELSE LET i == byteIdx * 8 + bit
                      t == InverseIndex(i, o.gridShape)
                  IN  IF i >= NumVoxelsOf(o)
                      THEN BitsetLoop(o, win, byteIdx + 1, 0)
                      ELSE AddVoxel(o, win, t[1], t[2], t[3])
                               \o BitsetLoop(o, win, byteIdx, bit + 1)

\* The emitted records keyed by their layer z and not by their height bin.
GroupByLayer(emitted) ==
    LET bins == {emitted[k].z : k \in 1 .. Len(emitted)}
        InBin(b) == LET Test(v) == v.z = b IN SelectSeq(emitted, Test)
    IN  [b \in bins |-> InBin(b)]

\* voxelsByZBin: the emitted records, by bin, each bin in emission order
GroupByZBin(emitted) ==
    LET bins == {ZBin(emitted[k].worldZ) : k \in 1 .. Len(emitted)}
        InBin(b) == LET Test(v) == ZBin(v.worldZ) = b IN SelectSeq(emitted, Test)
    IN  [b \in bins |-> InBin(b)]

\* The voxelizer with a bitset branch that drops the bits when the threshold
\* is above the bake threshold.
VisualizeThresholdedBitset(o, opts) ==
    LET threshold == EffectiveThreshold(opts)
        win == ZWindow(o, opts)
        keep == IF o.bakeThreshold # Undef /\ threshold > o.bakeThreshold[1]
                THEN <<>> ELSE BitsetLoop(o, win, 0, 0)
        emitted == IF OccEncoding(o) = "bitset" THEN keep
                   ELSE DenseLoop(o, threshold, win, 0, 0, 0)
    IN  [threshold |-> threshold,
         zFilterMin |-> win.zFilterMin,
         zFilterMax |-> win.zFilterMax,
         warned |-> FALSE,
         voxelsByZBin |-> GroupByZBin(emitted)]

\* visualizeOccupancyWithCubes(occupancyData, options), lines 31-159: the
\* effective threshold and window, the warning and the grouped voxel records.
VisualizeOccupancyWithCubes(o, opts) ==
    LET threshold == EffectiveThreshold(opts)
        win == ZWindow(o, opts)
        emitted == IF OccEncoding(o) = "bitset"
                   THEN BitsetLoop(o, win, 0, 0)
                   ELSE DenseLoop(o, threshold, win, 0, 0, 0)
    IN  [threshold |-> threshold,
         zFilterMin |-> win.zFilterMin,
         zFilterMax |-> win.zFilterMax,
         warned |-> /\ OccEncoding(o) = "bitset"
                    /\ o.bakeThreshold # Undef
                    /\ threshold # o.bakeThreshold[1],
         voxelsByZBin |-> GroupByZBin(emitted)]

\* The records of a group, over all bins.
Records(g) ==
    UNION {{g.voxelsByZBin[b][k] : k \in 1 .. Len(g.voxelsByZBin[b])} :
              b \in DOMAIN g.voxelsByZBin}

\* The grid triples of a group.
Voxels(g) == {<<r.x, r.y, r.z>> : r \in Records(g)}

\* Number of records of a group.
RECURSIVE CountBins(_, _)
CountBins(g, bins) ==
    IF bins = {} THEN 0
    ELSE LET b == CHOOSE c \in bins : TRUE
         IN  Len(g.voxelsByZBin[b]) + CountBins(g, bins \ {b})

NumRecords(g) == CountBins(g, DOMAIN g.voxelsByZBin)

(***************************************************************************)
(* Inputs: scenes as a loader returns them, and render options as the URL  *)
(* gives them.                                                             *)
(***************************************************************************)
\* Occupancy values: 0, 0.5 (the default threshold) and 0.9.
Probs == {0, 50, 90}

RECURSIVE SubsetsUpTo(_, _)
SubsetsUpTo(S, k) ==
    IF k = 0 THEN {{}}
    ELSE LET P == SubsetsUpTo(S, k - 1)
         IN  P \cup {T \cup {e} : T \in P, e \in S}

\* Buffers of length len with at most MaxOccupied values other than 0.
SparseBuffers(len) ==
    UNION {{[i \in 1 .. len |-> IF i \in S THEN f[i] ELSE 0] : f \in [S -> Probs \ {0}]} :
              S \in SubsetsUpTo(1 .. len, MaxOccupied)}

\* Lengths a decoded buffer may have against the n expected: up to
\* MaxTruncated short.
BufferLengths(n) == Max(0, n - MaxTruncated) .. n

RECURSIVE ByteOf(_)
ByteOf(bits) ==
    IF bits = {} THEN 0
    ELSE LET b == CHOOSE c \in bits : TRUE IN Pow2(b) + ByteOf(bits \ {b})

\* Byte buffers of length len with at most MaxOccupied bits set.
SparseBitsets(len) ==
    {[k \in 1 .. len |-> ByteOf({b \in 0 .. 7 : (k - 1) * 8 + b \in S})] :
        S \in SubsetsUpTo(0 .. 8 * len - 1, MaxOccupied)}

\* Math.ceil(expectedSize / 8)
ExpectedBytes(n) == (n + 7) \div 8

\* bounds.z of a grid of nz layers of height h from zMin up.
ZBounds(zMin, h, nz) == <<zMin, zMin + nz * h>>

\* What loadOccupancyData returns for a raw file.
DenseScene(shape, buffer, zb) ==
    [encoding |-> "raw", occupancy |-> buffer, numVoxels |-> Num(NumCells(shape)),
     gridShape |-> shape, bounds |-> [z |-> zb]]

\* What loadOccupancyData returns for a bitset file.
BitsetScene(shape, bits, nv, bake, bitorder, zb) ==
    [encoding |-> "bitset", occupancyBits |-> bits,
     numVoxels |-> nv, bakeThreshold |-> bake, bitorder |-> bitorder,
     gridShape |-> shape, bounds |-> [z |-> zb]]

\* Scenes of the main specification: layers 2 m high from -1 m up.
DenseScenes ==
    UNION {{DenseScene(shape, b, ZBounds(-20, 40, shape[3])) :
               b \in UNION {SparseBuffers(len) : len \in BufferLengths(NumCells(shape))}} :
              shape \in SceneShapes}

BitsetScenes ==
    UNION {{BitsetScene(shape, b, nv, Num(50), "lsb0", ZBounds(-20, 40, shape[3])) :
               b \in SparseBitsets(ExpectedBytes(NumCells(shape))),
               nv \in {Undef} \cup
                      {Num(k) : k \in Max(1, NumCells(shape) - MaxTruncated) .. NumCells(shape)}} :
              shape \in SceneShapes}

\* Thresholds of the URL: none, -0.5, 0, 0.5, 0.9.
Thresholds == {Undef, Num(-50), Num(0), Num(50), Num(90)}

RenderOptions(thresholds, zMins, zMaxs, drops) ==
    [threshold : thresholds, zFilterMin : zMins, zFilterMax : zMaxs, dropTopLayers : drops]

\* Options of the main specification: z_min absent or 1 m (top_layers is
\* varied in SpecWindow and SpecOptions).
MainOptions == RenderOptions(Thresholds, {Undef, Num(20)}, {Undef}, {Undef})

\* The bitset of a dense scene baked at threshold t: bit i (LSB first) of
\* byte i >> 3 is set iff the value at offset i is > t.
Bake(o, t) ==
    LET n == Len(o.occupancy)
        bits == [k \in 1 .. ExpectedBytes(NumCells(o.gridShape)) |->
                    ByteOf({b \in 0 .. 7 :
                               /\ (k - 1) * 8 + b < n
                               /\ o.occupancy[(k - 1) * 8 + b + 1] > t})]
    IN  BitsetScene(o.gridShape, bits, Num(NumCells(o.gridShape)), Num(t), "lsb0", o.bounds.z)

(***************************************************************************)
(* Spec: the occupancy app builds an Occupancy3DRenderer for a scene, and  *)
(* the page is loaded again with another threshold or with the scene's     *)
(* bitset bake.                                                            *)
(***************************************************************************)
\* Parts of the state a specification does not use.
IdleLegacy == groupCompare = None /\ groupVolume = None

IdleRender ==
    /\ options = None /\ group = None /\ prev = None /\ IdleLegacy

IdleIndex ==
    /\ coord = None /\ other = None /\ idx = None /\ idxOther = None /\ back = None

IdleProjection ==
    /\ indexingMode = None /\ zIndex = None
    /\ maxMap = None /\ meanMap = None /\ slice = None

IdleLoad ==
    /\ server = None /\ loader = None /\ jsonPath = None
    /\ metadata = None /\ warned = None /\ result = None

IdleUi ==
    /\ compareApp = None /\ view = None /\ renderer = None
    /\ panels = None /\ autoheight = None

Init ==
    /\ pc = "loaded"
    /\ occ \in DenseScenes \cup BitsetScenes
    /\ options \in MainOptions
    /\ group = None /\ prev = None
    /\ IdleLegacy /\ IdleIndex /\ IdleProjection /\ IdleLoad /\ IdleUi

\* new Occupancy3DRenderer(canvas, occupancyData, occRenderOptions): init()
\* builds the voxel group.
Construct ==
    /\ pc = "loaded"
    /\ group' = VisualizeOccupancyWithCubes(occ, options)
    /\ pc' = "rendered"
    /\ UNCHANGED uiVars
    /\ UNCHANGED <<occ, options, prev, groupCompare, groupVolume, indexVars, projVars, loadVars>>

\* The page is opened again on the same scene with another threshold in the
\* URL: options parsed, renderer built anew.
ReloadWithThreshold ==
    /\ pc = "rendered"
    /\ \E t \in Thresholds \ {options.threshold} :
          /\ options' = [options EXCEPT !.threshold = t]
          /\ group' = VisualizeOccupancyWithCubes(occ, options')
    /\ prev' = [occ |-> occ, options |-> options, voxels |-> Voxels(group)]
    /\ pc' = "rethresholded"
    /\ UNCHANGED uiVars
    /\ UNCHANGED <<occ, groupCompare, groupVolume, indexVars, projVars, loadVars>>

\* The scene's dense file is replaced by its bitset baked at the URL's
\* threshold, and the page is opened again with the same options.
ReloadBaked ==
    /\ pc = "rendered"
    /\ OccEncoding(occ) = "raw"
    /\ options.threshold # Undef
    /\ occ' = Bake(occ, options.threshold[1])
    /\ group' = VisualizeOccupancyWithCubes(occ', options)
    /\ prev' = [occ |-> occ, options |-> options, voxels |-> Voxels(group)]
    /\ pc' = "rebaked"
    /\ UNCHANGED uiVars
    /\ UNCHANGED <<options, groupCompare, groupVolume, indexVars, projVars, loadVars>>

Next == Construct \/ ReloadWithThreshold \/ ReloadBaked

Spec == Init /\ [][Next]_vars

\* C3 as stated: a dense volume voxelized at threshold t and its bitset baked
\* at t voxelize to the same set of triples, for every t.
C3_BakedSameAsDense_AnyThreshold ==
    pc = "rebaked" => Voxels(group) = prev.voxels

\* C3 amended: a dense volume voxelized at a threshold t >= 0 and its bitset
\* baked at t voxelize, under the same z options, to the same set of triples.
C3_BakedSameAsDense ==
    (pc = "rebaked" /\ options.threshold[1] >= 0) => Voxels(group) = prev.voxels

C3_Witness ==
    /\ pc = "rebaked"
    /\ options.threshold = Num(50)
    /\ prev.occ.gridShape = <<2, 1, 2>>
    /\ prev.occ.occupancy = <<0, 50, 0, 90>>
    /\ occ.occupancyBits = <<8>>
    /\ Voxels(group) = {<<1, 0, 1>>}
    /\ prev.voxels = {<<1, 0, 1>>}

\* The bitset with exactly the bit of offset i set.
OnlyBit(o, i) ==
    o.occupancyBits =
        [k \in 1 .. Len(o.occupancyBits) |-> IF k - 1 = i \div 8 THEN Pow2(i % 8) ELSE 0]

WindowScenes ==
    {DenseScene(<<1, 1, nz>>, [i \in 1 .. nz |-> 90], ZBounds(zMin, h, nz)) :
        nz \in 1 .. MaxDim, zMin \in {-20, 20}, h \in {20, 60}}

\* z_min and z_max absent, below the grid, inside it and above it;
\* top_layers absent, 0, 1, 3.
WindowOptions ==
    RenderOptions({Undef, Num(50)},
                  {Undef, Num(-40), Num(20), Num(100), Num(200)},
                  {Undef, Num(-40), Num(20), Num(50), Num(200)},
                  {Undef, Num(0), Num(1), Num(3)})

InitWindow ==
    /\ pc = "loaded"
    /\ occ \in WindowScenes
    /\ options \in WindowOptions
    /\ group = None /\ prev = None
    /\ IdleLegacy /\ IdleIndex /\ IdleProjection /\ IdleLoad /\ IdleUi

SpecWindow == InitWindow /\ [][Next]_vars

\* C2: for any render options the effective window of a call is not inverted
\* and not empty: zFilterMin < zFilterMax.
C2_WindowNotInverted ==
    pc # "loaded" => group.zFilterMin < group.zFilterMax

\* C10: the effective window lies within the grid's z bounds, and with no z
\* options it is [zMin, min(zMax, 3.5)].
C10_WindowWithinBounds ==
    pc # "loaded" =>
        /\ group.zFilterMin >= occ.bounds.z[1] /\ group.zFilterMin <= occ.bounds.z[2]
        /\ group.zFilterMax >= occ.bounds.z[1] /\ group.zFilterMax <= occ.bounds.z[2]
        /\ ( /\ options.zFilterMin = Undef
             /\ options.zFilterMax = Undef
             /\ options.dropTopLayers = Undef ) =>
               /\ group.zFilterMin = occ.bounds.z[1]
               /\ group.zFilterMax = Min(occ.bounds.z[2], DefaultZCap)

(***************************************************************************)
(* SpecIndex: the index mapping and its inverse applied to grid triples.   *)
(***************************************************************************)
InitIndex ==
    /\ pc = "start"
    /\ \E shape \in GridShapes :
          /\ occ = [gridShape |-> shape]
          /\ coord \in GridTriples(shape)
    /\ other = None /\ idx = None /\ idxOther = None /\ back = None
    /\ IdleRender /\ IdleProjection /\ IdleLoad /\ IdleUi

Flatten ==
    /\ pc = "start"
    /\ idx' = LinearIndex(coord[1], coord[2], coord[3], occ.gridShape)
    /\ pc' = "flat"
    /\ UNCHANGED uiVars
    /\ UNCHANGED <<occ, options, group, prev, groupCompare, groupVolume,
                   coord, other, idxOther, back, projVars, loadVars>>

FlattenOther ==
    /\ pc = "flat"
    /\ \E t \in GridTriples(occ.gridShape) :
          /\ other' = t
          /\ idxOther' = LinearIndex(t[1], t[2], t[3], occ.gridShape)
    /\ pc' = "pair"
    /\ UNCHANGED uiVars
    /\ UNCHANGED <<occ, options, group, prev, groupCompare, groupVolume,
                   coord, idx, back, projVars, loadVars>>

Unflatten ==
    /\ pc = "pair"
    /\ back' = InverseIndex(idx, occ.gridShape)
    /\ pc' = "back"
    /\ UNCHANGED uiVars
    /\ UNCHANGED <<occ, options, group, prev, groupCompare, groupVolume,
                   coord, other, idx, idxOther, projVars, loadVars>>

NextIndex == Flatten \/ FlattenOther \/ Unflatten

SpecIndex == InitIndex /\ [][NextIndex]_vars

\* C1: every valid triple's canonical offset lies in [0, nx*ny*nz), distinct
\* triples have distinct offsets, and the bitset voxelizer's inverse of the
\* offset is the triple itself.
C1_RoundTrip ==
    /\ pc \in {"flat", "pair", "back"} =>
          idx >= 0 /\ idx < NumCells(occ.gridShape)
    /\ pc \in {"pair", "back"} =>
          /\ idxOther >= 0 /\ idxOther < NumCells(occ.gridShape)
          /\ (other # coord => idxOther # idx)
    /\ pc = "back" => back = coord

C1_Witness ==
    /\ pc = "back"
    /\ occ.gridShape = <<2, 1, 2>>
    /\ coord = <<1, 0, 1>>
    /\ other # coord
    /\ back = coord

(***************************************************************************)
(* occupancyProcessor.js: the projections.                                 *)
(***************************************************************************)
KnownVariants ==
    {"variant1", "variant2", "variant3", "variant4", "variant5",
     "variant6", "variant7", "variant8", "variant9", "variant10"}

\* The indexingMode argument left out of the call.
Omitted == "omitted"

\* indexingMode = 'variant1': the default of the parameter, taken when the
\* argument is left out (the same in the three functions).
ModeParameter(mode) == IF mode = Omitted THEN "variant1" ELSE mode

\* The switch's assignment of [dim0, dim1, dim2] to nx, ny, nz.
VariantDims(variant, shape) ==
    LET d0 == shape[1]
        d1 == shape[2]
        d2 == shape[3]
    IN  CASE variant \in {"variant1", "variant3", "variant5"} -> [ny |-> d0, nx |-> d1, nz |-> d2]
          [] variant \in {"variant2", "variant4", "variant10"} -> [nx |-> d0, ny |-> d1, nz |-> d2]
          [] variant = "variant6" -> [nz |-> d0, ny |-> d1, nx |-> d2]
          [] variant = "variant7" -> [nx |-> d0, nz |-> d1, ny |-> d2]
          [] variant = "variant8" -> [ny |-> d0, nz |-> d1, nx |-> d2]
          [] variant = "variant9" -> [nz |-> d0, nx |-> d1, ny |-> d2]

\* The switch's getIndex(x, y, z).
VariantIndex(variant, d, x, y, z) ==
    CASE variant \in {"variant1", "variant4", "variant5"} -> y + x * d.ny + z * d.ny * d.nx
      [] variant \in {"variant2", "variant3"} -> x + y * d.nx + z * d.nx * d.ny
      [] variant \in {"variant6", "variant10"} -> z + y * d.nz + x * d.nz * d.ny
      [] variant = "variant7" -> x + z * d.nx + y * d.nx * d.nz
      [] variant = "variant8" -> y + z * d.ny + x * d.ny * d.nz
      [] variant = "variant9" -> z + x * d.nz + y * d.nz * d.nx

\* The default: branch of the switch of extractZSlice and of
\* projectMaxOccupancy: the layout of variant1.
SwitchMaxSlice(mode) == IF mode \in KnownVariants THEN mode ELSE "variant1"

\* The default: branch of the switch of projectMeanOccupancy: the layout of
\* variant10.
SwitchMean(mode) == IF mode \in KnownVariants THEN mode ELSE "variant10"

\* A map of rows 0..ny-1 and columns 0..nx-1 as an array of arrays.
MapOf(d, Cell(_, _)) == [r \in 1 .. d.ny |-> [c \in 1 .. d.nx |-> Cell(c - 1, r - 1)]]

\* let maxOcc = 0; for z: if (volumeIdx < occupancy.length) maxOcc = Math.max(...)
RECURSIVE MaxOverZ(_, _, _, _, _, _, _)
MaxOverZ(occupancy, variant, d, x, y, z, maxOcc) ==
    IF z >= d.nz THEN maxOcc
    ELSE LET volumeIdx == VariantIndex(variant, d, x, y, z)
         IN  MaxOverZ(occupancy, variant, d, x, y, z + 1,
                      IF volumeIdx < Len(occupancy)
                      THEN Max(maxOcc, occupancy[volumeIdx + 1])
                      ELSE maxOcc)

\* projectMaxOccupancy(occupancy, gridShape, indexingMode)
ProjectMaxOccupancy(occupancy, shape, mode) ==
    LET variant == SwitchMaxSlice(ModeParameter(mode))
        d == VariantDims(variant, shape)
        Cell(x, y) == MaxOverZ(occupancy, variant, d, x, y, 0, 0)
    IN  MapOf(d, Cell)

\* let sum = 0; for z: if (volumeIdx >= occupancy.length) continue; sum += ...
RECURSIVE SumOverZ(_, _, _, _, _, _, _)
SumOverZ(occupancy, variant, d, x, y, z, sum) ==
    IF z >= d.nz THEN sum
    ELSE LET volumeIdx == VariantIndex(variant, d, x, y, z)
         IN  SumOverZ(occupancy, variant, d, x, y, z + 1,
                      IF volumeIdx >= Len(occupancy) THEN sum
                      ELSE sum + occupancy[volumeIdx + 1])

\* The number of z whose offset is inside the buffer.
RECURSIVE CountOverZ(_, _, _, _, _, _, _)
CountOverZ(occupancy, variant, d, x, y, z, count) ==
    IF z >= d.nz THEN count
    ELSE CountOverZ(occupancy, variant, d, x, y, z + 1,
                    IF VariantIndex(variant, d, x, y, z) >= Len(occupancy)
                    THEN count ELSE count + 1)

\* The mean over the z whose offset is inside the buffer.
ProjectMeanOverValid(occupancy, shape, mode) ==
    LET variant == SwitchMean(ModeParameter(mode))
        d == VariantDims(variant, shape)
        Cell(x, y) == <<SumOverZ(occupancy, variant, d, x, y, 0, 0),
                        CountOverZ(occupancy, variant, d, x, y, 0, 0)>>
    IN  MapOf(d, Cell)

\* projectMeanOccupancy(occupancy, gridShape, indexingMode); a cell sum / nz
\* is the fraction <<sum, nz>>.
ProjectMeanOccupancy(occupancy, shape, mode) ==
    LET variant == SwitchMean(ModeParameter(mode))
        d == VariantDims(variant, shape)
        Cell(x, y) == <<SumOverZ(occupancy, variant, d, x, y, 0, 0), d.nz>>
    IN  MapOf(d, Cell)

\* extractZSlice with no check of zIndex.
ExtractZSliceUnchecked(occupancy, shape, z, mode) ==
    LET variant == SwitchMaxSlice(ModeParameter(mode))
        d == VariantDims(variant, shape)
        Cell(x, y) == FiniteOr(At(occupancy, VariantIndex(variant, d, x, y, z)), 0)
    IN  [threw |-> FALSE, map |-> MapOf(d, Cell)]

\* extractZSlice(occupancy, gridShape, zIndex, indexingMode): the slice, or
\* the error thrown for a zIndex out of range.
ExtractZSlice(occupancy, shape, z, mode) ==
    LET variant == SwitchMaxSlice(ModeParameter(mode))
        d == VariantDims(variant, shape)
        Cell(x, y) == LET volumeIdx == VariantIndex(variant, d, x, y, z)
                      IN  IF volumeIdx < Len(occupancy) THEN occupancy[volumeIdx + 1] ELSE 0
    IN  IF z < 0 \/ z >= d.nz
        THEN [threw |-> TRUE, map |-> <<>>]
        ELSE [threw |-> FALSE, map |-> MapOf(d, Cell)]

(***************************************************************************)
(* visualizeOccupancyWithCubes of CompareMultiViewRenderer and of          *)
(* VolumeRenderer: fixed window, threshold 0.01.                           *)
(***************************************************************************)
\* const zFilterMin = -1.0, in units of 0.05 m
LegacyZFilterMin == -20
\* const zFilterMax = 3.5, in units of 0.05 m
LegacyZFilterMax == 70
\* the threshold both renderers pass: 0.01
LegacyThreshold == 1

LegacyWindow == [zFilterMin |-> LegacyZFilterMin, zFilterMax |-> LegacyZFilterMax]

\* CompareMultiViewRenderer: the loops from (x, y, z) on; occupancy[idx] is
\* read with no check of idx against the length.
RECURSIVE CompareLoop(_, _, _, _, _)
CompareLoop(o, threshold, x, y, z) ==
    IF x >= o.gridShape[1] THEN <<>>
    ELSE IF y >= o.gridShape[2] THEN CompareLoop(o, threshold, x + 1, 0, 0)
    ELSE IF z >= o.gridShape[3] THEN CompareLoop(o, threshold, x, y + 1, 0)
    ELSE LET i == LinearIndex(x, y, z, o.gridShape)
             p == At(o.occupancy, i)
             here == IF JsLessEq(p, Num(threshold)) THEN <<>>
                     ELSE AddVoxel(o, LegacyWindow, x, y, z)
         IN  here \o CompareLoop(o, threshold, x, y, z + 1)

\* VolumeRenderer: the loops from (x, y, z) on.
RECURSIVE VolumeLoop(_, _, _, _, _)
VolumeLoop(o, threshold, x, y, z) ==
    IF x >= o.gridShape[1] THEN <<>>
    ELSE IF y >= o.gridShape[2] THEN VolumeLoop(o, threshold, x + 1, 0, 0)
    ELSE IF z >= o.gridShape[3] THEN VolumeLoop(o, threshold, x, y + 1, 0)
    ELSE LET volumeIdx == LinearIndex(x, y, z, o.gridShape)
             p == At(o.occupancy, volumeIdx)
             here == IF volumeIdx >= Len(o.occupancy) THEN <<>>
                     ELSE IF JsLessEq(p, Num(threshold)) THEN <<>>
                     ELSE AddVoxel(o, LegacyWindow, x, y, z)
         IN  here \o VolumeLoop(o, threshold, x, y, z + 1)

\* visualizeOccupancyWithCubes(occupancy, gridShape, bounds, threshold) of
\* CompareMultiViewRenderer
CompareVisualize(o, threshold) ==
    [voxelsByZBin |-> GroupByZBin(CompareLoop(o, threshold, 0, 0, 0))]

\* visualizeOccupancyWithCubes(occupancy, gridShape, bounds, threshold) of
\* VolumeRenderer
VolumeVisualize(o, threshold) ==
    [voxelsByZBin |-> GroupByZBin(VolumeLoop(o, threshold, 0, 0, 0))]

(***************************************************************************)
(* SpecRoutines: every projection and every voxelizer applied to one       *)
(* decoded scene, whose buffer may be shorter than the grid.               *)
(***************************************************************************)
\* What the loaders of dataLoader.js and of the compare app return.
LegacyScene(shape, buffer, zb) ==
    [occupancy |-> buffer, gridShape |-> shape, bounds |-> [z |-> zb]]

LegacyScenes ==
    UNION {{LegacyScene(shape, b, ZBounds(-20, 40, shape[3])) :
               b \in UNION {SparseBuffers(len) : len \in BufferLengths(NumCells(shape))}} :
              shape \in SceneShapes}

\* The ten variants, an unknown name, and the argument left out.
IndexingModes == KnownVariants \cup {"variant11", Omitted}

NoOptions ==
    [threshold |-> Undef, zFilterMin |-> Undef, zFilterMax |-> Undef, dropTopLayers |-> Undef]

InitRoutines ==
    /\ pc = "loaded"
    /\ occ \in LegacyScenes
    /\ indexingMode \in IndexingModes
    /\ zIndex \in -1 .. MaxDim
    /\ maxMap = None /\ meanMap = None /\ slice = None
    /\ options = NoOptions
    /\ group = None /\ prev = None
    /\ IdleLegacy /\ IdleIndex /\ IdleLoad /\ IdleUi

CallProjectMax ==
    /\ pc = "loaded"
    /\ maxMap' = ProjectMaxOccupancy(occ.occupancy, occ.gridShape, indexingMode)
    /\ pc' = "max"
    /\ UNCHANGED uiVars
    /\ UNCHANGED <<occ, options, group, prev, groupCompare, groupVolume, indexVars,
                   indexingMode, zIndex, meanMap, slice, loadVars>>

CallProjectMean ==
    /\ pc = "max"
    /\ meanMap' = ProjectMeanOccupancy(occ.occupancy, occ.gridShape, indexingMode)
    /\ pc' = "mean"
    /\ UNCHANGED uiVars
    /\ UNCHANGED <<occ, options, group, prev, groupCompare, groupVolume, indexVars,
                   indexingMode, zIndex, maxMap, slice, loadVars>>

CallExtractZSlice ==
    /\ pc = "mean"
    /\ slice' = ExtractZSlice(occ.occupancy, occ.gridShape, zIndex, indexingMode)
    /\ pc' = "slice"
    /\ UNCHANGED uiVars
    /\ UNCHANGED <<occ, options, group, prev, groupCompare, groupVolume, indexVars,
                   indexingMode, zIndex, maxMap, meanMap, loadVars>>

\* CompareMultiViewRenderer.init: the occupancy group
BuildCompare ==
    /\ pc = "slice"
    /\ groupCompare' = CompareVisualize(occ, LegacyThreshold)
    /\ pc' = "compare"
    /\ UNCHANGED uiVars
    /\ UNCHANGED <<occ, options, group, prev, groupVolume, indexVars, projVars, loadVars>>

\* VolumeRenderer.init: the occupancy group
BuildVolume ==
    /\ pc = "compare"
    /\ groupVolume' = VolumeVisualize(occ, LegacyThreshold)
    /\ pc' = "volume"
    /\ UNCHANGED uiVars
    /\ UNCHANGED <<occ, options, group, prev, groupCompare, indexVars, projVars, loadVars>>

\* Occupancy3DRenderer.init with no render options
BuildOccupancy3D ==
    /\ pc = "volume"
    /\ group' = VisualizeOccupancyWithCubes(occ, options)
    /\ pc' = "occupancy3d"
    /\ UNCHANGED uiVars
    /\ UNCHANGED <<occ, options, prev, groupCompare, groupVolume, indexVars, projVars, loadVars>>

NextRoutines ==
    \/ CallProjectMax \/ CallProjectMean \/ CallExtractZSlice
    \/ BuildCompare \/ BuildVolume \/ BuildOccupancy3D

SpecRoutines == InitRoutines /\ [][NextRoutines]_vars

\* The buffer as the specification reads it: 0 from its end up to the size of
\* the grid.
ZeroPadded(o) ==
    [i \in 1 .. Max(Len(o.occupancy), NumCells(o.gridShape)) |->
        IF i <= Len(o.occupancy) THEN o.occupancy[i] ELSE 0]

InBuffer(o, v) == LinearIndex(v[1], v[2], v[3], o.gridShape) < Len(o.occupancy)

\* C4: a voxel whose canonical index is at or beyond the end of the decoded
\* buffer counts as unoccupied in every routine: none of the three
\* voxelizers (Occupancy3DRenderer, VolumeRenderer, CompareMultiViewRenderer)
\* emits a cube for it, and the projections and the slice are those of the
\* buffer padded with 0.
C4_OutOfRangeUnoccupied ==
    pc = "occupancy3d" =>
        /\ \A v \in Voxels(group) : InBuffer(occ, v)
        /\ \A v \in Voxels(groupVolume) : InBuffer(occ, v)
        /\ \A v \in Voxels(groupCompare) : InBuffer(occ, v)
        /\ maxMap = ProjectMaxOccupancy(ZeroPadded(occ), occ.gridShape, indexingMode)
        /\ meanMap = ProjectMeanOccupancy(ZeroPadded(occ), occ.gridShape, indexingMode)
        /\ slice = ExtractZSlice(ZeroPadded(occ), occ.gridShape, zIndex, indexingMode)

\* The part of C4 the bounds-checked routines keep: every routine but the
\* voxelizer of CompareMultiViewRenderer.
BoundsCheckedRoutines ==
    pc = "occupancy3d" =>
        /\ \A v \in Voxels(group) : InBuffer(occ, v)
        /\ \A v \in Voxels(groupVolume) : InBuffer(occ, v)
        /\ maxMap = ProjectMaxOccupancy(ZeroPadded(occ), occ.gridShape, indexingMode)
        /\ meanMap = ProjectMeanOccupancy(ZeroPadded(occ), occ.gridShape, indexingMode)
        /\ slice = ExtractZSlice(ZeroPadded(occ), occ.gridShape, zIndex, indexingMode)

\* Cell [r][c] of map m is there and bounds the fraction q from above.
CellAtLeastFraction(m, r, c, q) ==
    /\ r \in DOMAIN m
    /\ c \in DOMAIN m[r]
    /\ m[r][c] * q[2] >= q[1]

CellAtLeast(m, r, c, v) ==
    /\ r \in DOMAIN m
    /\ c \in DOMAIN m[r]
    /\ m[r][c] >= v

\* C6: with one indexing mode given to the three functions, every cell of
\* the max projection is at least the same cell of the mean projection, and
\* every cell of the slice at a valid z is at most the same cell of the max
\* projection.
C6_MaxBoundsMeanAndSlice ==
    pc = "slice" =>
        /\ \A r \in DOMAIN meanMap : \A c \in DOMAIN meanMap[r] :
               CellAtLeastFraction(maxMap, r, c, meanMap[r][c])
        /\ ~slice.threw =>
               \A r \in DOMAIN slice.map : \A c \in DOMAIN slice.map[r] :
                   CellAtLeast(maxMap, r, c, slice.map[r][c])

\* C6 for the modes the switch knows and for the mode left out.
MaxBoundsMeanAndSliceKnownModes ==
    indexingMode # "variant11" => C6_MaxBoundsMeanAndSlice

RECURSIVE SetMax(_)
SetMax(S) ==
    IF S = {} THEN 0
    ELSE LET e == CHOOSE c \in S : TRUE IN Max(e, SetMax(S \ {e}))

\* The max projection the specification describes: ny rows of nx columns,
\* cell [y][x] the greatest value at canonical offset z + y*nz + x*nz*ny,
\* a read past the end counting as 0.
CanonicalMaxMap(o) ==
    [r \in 1 .. o.gridShape[2] |->
        [c \in 1 .. o.gridShape[1] |->
            SetMax({FiniteOr(At(o.occupancy, LinearIndex(c - 1, r - 1, z, o.gridShape)), 0) :
                       z \in 0 .. o.gridShape[3] - 1})]]

\* C7: projectMaxOccupancy(occupancy, gridShape), the mode left out, returns
\* ny rows of nx columns whose cell [y][x] is the maximum over z of the value
\* at canonical offset z + y*nz + x*nz*ny.
C7_MaxProjectionCanonical ==
    (pc = "max" /\ indexingMode = Omitted) => maxMap = CanonicalMaxMap(occ)

\* C8: projectMeanOccupancy with the mode left out or not a recognised name
\* returns what it returns with 'variant10'.
C8_MeanDefaultsToVariant10 ==
    (pc = "mean" /\ indexingMode \notin KnownVariants) =>
        meanMap = ProjectMeanOccupancy(occ.occupancy, occ.gridShape, "variant10")

\* C8 for a name that is not recognised, the mode given.
MeanUnknownNameIsVariant10 ==
    (pc = "mean" /\ indexingMode = "variant11") =>
        meanMap = ProjectMeanOccupancy(occ.occupancy, occ.gridShape, "variant10")

(***************************************************************************)
(* loadOccupancyData: the loader of the 3D occupancy app, which follows    *)
(* manifests and decodes raw and bitset files, and the loader of           *)
(* dataLoader.js, which decodes raw files only.                            *)
(***************************************************************************)
\* A binary file of float32 values followed by tail bytes (fewer than 4).
RawFile(floats, tail) == [floats |-> floats, tail |-> tail]

\* A binary file of a bitset.
BitsetFile(bytes) == [bytes |-> bytes]

\* arrayBuffer.byteLength
ByteLength(file) ==
    IF "bytes" \in DOMAIN file THEN Len(file.bytes)
    ELSE 4 * Len(file.floats) + file.tail

\* Metadata of a raw file, with its encoding field and without.
RawMetadata(shape, withEncoding) ==
    IF withEncoding
    THEN [grid_shape |-> shape, occupancy_file |-> "occupancy.bin", encoding |-> "raw",
          bounds |-> [z |-> ZBounds(-20, 40, shape[3])]]
    ELSE [grid_shape |-> shape, occupancy_file |-> "occupancy.bin",
          bounds |-> [z |-> ZBounds(-20, 40, shape[3])]]

\* Metadata of a bitset file; bitorder is "omitted" when the field is absent.
BitsetMetadata(shape, nv, bake, bitorder) ==
    [grid_shape |-> shape, occupancy_file |-> "occupancy.bin", encoding |-> "bitset",
     num_voxels |-> nv, bake_threshold |-> bake, bitorder |-> bitorder,
     bounds |-> [z |-> ZBounds(-20, 40, shape[3])]]

\* Grid shapes with a dimension that is 0 or negative.
InvalidShapes == {<<0, 1, 1>>, <<1, -1, 1>>}

\* bounds.z with max = min and with max < min.
InvalidZBounds == {<<-20, -20>>, <<20, -20>>}

\* A grid shape is valid when every dimension is positive, and bounds when
\* max > min.
ValidGeometry(m) ==
    /\ \A i \in 1 .. 3 : m.grid_shape[i] > 0
    /\ m.bounds.z[2] > m.bounds.z[1]

\* Raw metadata whose grid shape or whose bounds are not valid.
InvalidGeometryMetadata ==
    {RawMetadata(shape, TRUE) : shape \in InvalidShapes}
    \cup {[RawMetadata(shape, TRUE) EXCEPT !.bounds.z = zb] :
             shape \in {<<1, 1, 1>>, <<1, 1, 2>>}, zb \in InvalidZBounds}

\* Manifests of the compare app and of the modalities app, and a document
\* that is neither.
Manifests ==
    {[occupancy |-> [url |-> "occupancy.json"]],
     [modalities |-> [occupancy |-> [json |-> "occupancy.json"]]],
     [title |-> "scene"]}

\* A buffer of one value.
UniformBuffers(len) == {[i \in 1 .. len |-> p] : p \in Probs}

\* Lengths of a file against the n expected: up to MaxTruncated short, and
\* one over.
FileLengths(n) == Max(0, n - MaxTruncated) .. n + 1

\* Metadata and the binary file it names: a raw file of whole values and 0
\* to 3 bytes more, or a bitset file.
MetadataWithFile ==
    UNION {
        {<<RawMetadata(shape, e), RawFile(b, tail)>> :
            e \in BOOLEAN, tail \in 0 .. 3,
            b \in UNION {UniformBuffers(len) : len \in FileLengths(NumCells(shape))}}
        \cup
        {<<BitsetMetadata(shape, nv, bake, bitorder), BitsetFile(b)>> :
            nv \in {Undef, Num(0), Num(NumCells(shape)), Num(NumCells(shape) + 1)},
            bake \in {Undef, Num(50)},
            bitorder \in {Omitted, "lsb0", "msb0"},
            b \in UNION {{[k \in 1 .. len |-> v] : v \in {0, 255}} :
                            len \in FileLengths(ExpectedBytes(NumCells(shape)))}} :
        shape \in GridShapes}
    \cup
    UNION {{<<m, RawFile(b, 0)>> :
               b \in UNION {UniformBuffers(len) :
                               len \in FileLengths(NumCells(m.grid_shape))}} :
              m \in InvalidGeometryMetadata}

Servers ==
    {[docs |-> [u \in {"scene.json", "occupancy.json"} |->
                   IF u = "scene.json" THEN [ok |-> sceneOk, body |-> manifest]
                   ELSE [ok |-> metaOk, body |-> mf[1]]],
      binOk |-> binOk, file |-> mf[2]] :
        sceneOk \in BOOLEAN, metaOk \in BOOLEAN, binOk \in BOOLEAN,
        manifest \in Manifests, mf \in MetadataWithFile}

IsRawFile(file) == "floats" \in DOMAIN file

InitLoad ==
    /\ pc = "fetchMetadata"
    /\ server \in Servers
    /\ loader \in {"occupancy3d", "legacy"}
    /\ jsonPath \in {"scene.json", "occupancy.json"}
    /\ loader = "legacy" => jsonPath = "occupancy.json" /\ IsRawFile(server.file)
    /\ metadata = None
    /\ warned = FALSE
    /\ result = None
    /\ occ = None
    /\ IdleRender /\ IdleIndex /\ IdleProjection /\ IdleUi

\* throw: the call ends with the error (the catch block logs it and throws
\* it again).
Throw(error) ==
    /\ pc' = "threw"
    /\ result' = [error |-> error, stage |-> pc]

\* isOccupancyMeta = hasGridShape && hasOccFile
IsOccupancyMeta(m) == "grid_shape" \in DOMAIN m /\ "occupancy_file" \in DOMAIN m

\* next = metadata?.occupancy?.url || metadata?.modalities?.occupancy?.json
HasNextUrl(m) == "occupancy" \in DOMAIN m \/ "modalities" \in DOMAIN m

NextUrl(m) ==
    IF "occupancy" \in DOMAIN m THEN m.occupancy.url ELSE m.modalities.occupancy.json

\* encoding = typeof metadata.encoding === 'string' ? metadata.encoding : 'raw'
MetadataEncoding(m) == IF "encoding" \in DOMAIN m THEN m.encoding ELSE "raw"

\* expectedSize = metadata.grid_shape.reduce((a, b) => a * b, 1)
ExpectedSize(m) == NumCells(m.grid_shape)

\* Number(metadata.num_voxels || expectedSize)
MetadataNumVoxels(m) ==
    IF m.num_voxels = Undef \/ m.num_voxels = Num(0) THEN Num(ExpectedSize(m))
    ELSE m.num_voxels

\* bitorder: metadata.bitorder || 'lsb0'
MetadataBitorder(m) == IF m.bitorder = Omitted THEN "lsb0" ELSE m.bitorder

\* fetch(jsonPath) and response.json(): the metadata, a manifest to follow
\* with a call of loadOccupancyData on the URL it names, or an error.
FetchMetadata ==
    /\ pc = "fetchMetadata"
    /\ LET response == server.docs[jsonPath]
           m == response.body
       IN  IF ~response.ok
           THEN Throw("Failed to load metadata") /\ UNCHANGED <<jsonPath, metadata>>
           ELSE IF loader = "legacy" \/ IsOccupancyMeta(m)
           THEN pc' = "fetchBinary" /\ metadata' = m /\ UNCHANGED <<jsonPath, result>>
           ELSE IF HasNextUrl(m)
           THEN jsonPath' = NextUrl(m) /\ UNCHANGED <<pc, metadata, result>>
           ELSE Throw("Unrecognized occupancy manifest format.")
                /\ UNCHANGED <<jsonPath, metadata>>
    /\ UNCHANGED uiVars
    /\ UNCHANGED <<occ, options, group, prev, groupCompare, groupVolume,
                   indexVars, projVars, server, loader, warned>>

\* fetch(binUrl)
FetchBinary ==
    /\ pc = "fetchBinary"
    /\ IF ~server.binOk
       THEN Throw("Failed to load binary file")
       ELSE pc' = "decode" /\ UNCHANGED result
    /\ UNCHANGED uiVars
    /\ UNCHANGED <<occ, options, group, prev, groupCompare, groupVolume,
                   indexVars, projVars, server, loader, jsonPath, metadata, warned>>

\* new Float32Array(arrayBuffer): a RangeError when the byte length is not a
\* multiple of 4.
Float32ArrayThrows(file) == ByteLength(file) % 4 # 0

\* The bitset branch of the 3D occupancy app's loader.
DecodeBitset ==
    LET occupancyBits == server.file.bytes
        expectedBytes == ExpectedBytes(ExpectedSize(metadata))
    IN  /\ warned' = (Len(occupancyBits) # expectedBytes)
        /\ result' = BitsetScene(metadata.grid_shape, occupancyBits,
                                 MetadataNumVoxels(metadata), metadata.bake_threshold,
                                 MetadataBitorder(metadata), metadata.bounds.z)
        /\ pc' = "returned"

\* The raw branch of the 3D occupancy app's loader.
DecodeRaw ==
    IF Float32ArrayThrows(server.file)
    THEN Throw("RangeError") /\ UNCHANGED warned
    ELSE LET occupancyFlat == server.file.floats
         IN  /\ warned' = (Len(occupancyFlat) # ExpectedSize(metadata))
             /\ result' = DenseScene(metadata.grid_shape, occupancyFlat, metadata.bounds.z)
             /\ pc' = "returned"

\* The decoding of dataLoader.js.
DecodeLegacy ==
    IF Float32ArrayThrows(server.file)
    THEN Throw("RangeError") /\ UNCHANGED warned
    ELSE LET occupancyFlat == server.file.floats
         IN  /\ warned' = (Len(occupancyFlat) # ExpectedSize(metadata))
             /\ result' = LegacyScene(metadata.grid_shape, occupancyFlat, metadata.bounds.z)
             /\ pc' = "returned"

\* binResponse.arrayBuffer() and all that follows it.
Decode ==
    /\ pc = "decode"
    /\ IF loader = "legacy" THEN DecodeLegacy
       ELSE IF MetadataEncoding(metadata) = "bitset" THEN DecodeBitset
       ELSE DecodeRaw
    /\ UNCHANGED uiVars
    /\ UNCHANGED <<occ, options, group, prev, groupCompare, groupVolume,
                   indexVars, projVars, server, loader, jsonPath, metadata>>

\* The app hides the loading screen and builds an Occupancy3DRenderer on
\* what loadOccupancyData returned, with the options of a URL that has none.
ShowScene ==
    /\ pc = "returned"
    /\ loader = "occupancy3d"
    /\ group' = VisualizeOccupancyWithCubes(result, NoOptions)
    /\ pc' = "rendered"
    /\ UNCHANGED uiVars
    /\ UNCHANGED <<occ, options, prev, groupCompare, groupVolume, indexVars, projVars, loadVars>>

\* catch (err): showError(err.message); no renderer is built.
ShowError ==
    /\ pc = "threw"
    /\ loader = "occupancy3d"
    /\ pc' = "error"
    /\ UNCHANGED uiVars
    /\ UNCHANGED <<occ, options, group, prev, groupCompare, groupVolume, indexVars,
                   projVars, loadVars>>

NextLoad == FetchMetadata \/ FetchBinary \/ Decode \/ ShowScene \/ ShowError

SpecLoad == InitLoad /\ [][NextLoad]_vars

\* The binary payload reached the decoding.
PayloadDecoded ==
    \/ pc \in {"returned", "rendered"}
    \/ (pc \in {"threw", "error"} /\ result.stage = "decode")

\* C5: for raw encoding, a payload whose length disagrees with nx*ny*nz,
\* whatever its size, is decoded and returned without a throw, and a
\* size-mismatch warning is emitted.
C5_RawSizeMismatchNonFatal ==
    (/\ PayloadDecoded
     /\ MetadataEncoding(metadata) # "bitset"
     /\ ByteLength(server.file) # 4 * ExpectedSize(metadata))
        => /\ pc \in {"returned", "rendered"}
           /\ warned
           /\ result.occupancy = server.file.floats

\* C5 for the payloads of whole float32 values.
WholeValuesMismatchNonFatal ==
    (PayloadDecoded /\ IsRawFile(server.file) /\ server.file.tail = 0)
        => C5_RawSizeMismatchNonFatal

(***************************************************************************)
(* SpecOptions: one column of layers voxelized under render options of     *)
(* every kind, then voxelized again with no top layers dropped.            *)
(***************************************************************************)
\* One column of nz layers 0.5 m or 1 m high from -1 m up, every voxel at 0.9.
LayerScenes ==
    {DenseScene(<<1, 1, nz>>, [i \in 1 .. nz |-> 90], ZBounds(-20, h, nz)) :
        nz \in 1 .. MaxLayers, h \in {10, 20}}

\* threshold absent, NaN, -0.5, 0.5; z_min absent, below the grid and inside
\* it; z_max absent or 2.5 m; top_layers absent, -1 and 0 up to more than
\* the grid has.
LayerOptions ==
    RenderOptions({Undef, NaN, Num(-50), Num(50)},
                  {Undef, Num(-40), Num(0), Num(20)},
                  {Undef, Num(50)},
                  {Undef} \cup {Num(k) : k \in -1 .. MaxLayers + 1})

InitOptions ==
    /\ pc = "loaded"
    /\ occ \in LayerScenes
    /\ options \in LayerOptions
    /\ group = None /\ prev = None
    /\ IdleLegacy /\ IdleIndex /\ IdleProjection /\ IdleLoad /\ IdleUi

\* The page is opened again on the same scene with top_layers=0 in the URL.
ReloadWithoutTopLayers ==
    /\ pc = "rendered"
    /\ options' = [options EXCEPT !.dropTopLayers = Num(0)]
    /\ group' = VisualizeOccupancyWithCubes(occ, options')
    /\ prev' = [occ |-> occ, options |-> options, voxels |-> Voxels(group),
                zFilterMin |-> group.zFilterMin, zFilterMax |-> group.zFilterMax]
    /\ pc' = "relayered"
    /\ UNCHANGED uiVars
    /\ UNCHANGED <<occ, groupCompare, groupVolume, indexVars, projVars, loadVars>>

NextOptions == Construct \/ ReloadWithoutTopLayers

SpecOptions == InitOptions /\ [][NextOptions]_vars

\* dropTopLayers as the voxelizer reads it.
DropTopLayersOf(opts) == Max(0, FiniteOr(opts.dropTopLayers, 0))

\* C11: with no zFilterMax option and a grid not higher than 3.5 m, the
\* effective zFilterMax under dropTopLayers = k is that under dropTopLayers = 0
\* less k * voxelSizeZ, for every k >= 0 that leaves the lowered zFilterMax
\* above the effective zFilterMin.
C11_DropLowersByLayers ==
    (/\ pc = "relayered"
     /\ prev.options.zFilterMax = Undef
     /\ occ.bounds.z[2] <= DefaultZCap
     /\ FiniteOr(prev.options.dropTopLayers, 0) >= 0
     /\ occ.bounds.z[2] - DropTopLayersOf(prev.options) * VoxelSizeZ(occ) > prev.zFilterMin)
        => prev.zFilterMax = group.zFilterMax - DropTopLayersOf(prev.options) * VoxelSizeZ(occ)

\* An 8-layer grid of full default height: one layer dropped lowers
\* zFilterMax from 3 m to 2.5 m; three layers, with z_min at 0 m, to 1.5 m.
C11_Witness ==
    /\ pc = "relayered"
    /\ occ.gridShape = <<1, 1, 8>> /\ occ.bounds.z = <<-20, 60>>
    /\ prev.options.zFilterMax = Undef
    /\ prev.options.zFilterMin = Num(0)
    /\ prev.options.dropTopLayers = Num(3)
    /\ prev.zFilterMax = 30 /\ group.zFilterMax = 60

\* C13: a voxelization called with a threshold option that is not finite
\* (NaN) fails: no group comes out of such a call.
C13_NonFiniteThresholdFails ==
    ~(pc = "rendered" /\ Len(options.threshold) = 2)

\* C17: the threshold a call voxelizes with is max(0, options.threshold) when
\* the option is a finite number, and 0.5 when there is no threshold option.
C17_EffectiveThreshold ==
    pc # "loaded" =>
        /\ IsFinite(options.threshold) =>
               group.threshold = (IF options.threshold[1] < 0 THEN 0 ELSE options.threshold[1])
        /\ options.threshold = Undef => group.threshold = 50

\* A call with threshold -0.5 voxelizes with 0: the voxel at 0 is skipped and
\* the voxel at 0.5 is kept.
C17_Witness ==
    /\ pc = "rendered"
    /\ options.threshold = Num(-50)
    /\ group.threshold = 0
    /\ OccEncoding(occ) = "raw"
    /\ occ.gridShape = <<1, 1, 2>> /\ occ.occupancy = <<0, 50>>
    /\ Voxels(group) = {<<0, 0, 1>>}

\* The triples of a dense volume whose value is above the threshold of the
\* group and whose centre is inside its window.
DenseExpected(o, g) ==
    {t \in GridTriples(o.gridShape) :
        LET i == LinearIndex(t[1], t[2], t[3], o.gridShape)
            worldZ == o.bounds.z[1] + ((2 * t[3] + 1) * VoxelSizeZ(o)) \div 2
        IN  /\ i < Len(o.occupancy)
            /\ o.occupancy[i + 1] > g.threshold
            /\ g.zFilterMin <= worldZ /\ worldZ <= g.zFilterMax}

\* C19: for a dense volume the voxelizer emits one record, and only one, for
\* each (x,y,z) whose value is strictly above the effective threshold and
\* whose centre height is inside the window, and no record for any other
\* triple; a value equal to the threshold is skipped.
C19_DenseEmission ==
    (pc # "loaded" /\ OccEncoding(occ) = "raw") =>
        /\ Voxels(group) = DenseExpected(occ, group)
        /\ NumRecords(group) = Cardinality(DenseExpected(occ, group))

\* Layers centred at 0 m and 2 m, values 0.9 and 0.5, threshold 0.5: the
\* value equal to the threshold is skipped.
C19_Witness ==
    /\ pc = "rendered"
    /\ OccEncoding(occ) = "raw"
    /\ occ.gridShape = <<1, 1, 2>> /\ occ.occupancy = <<90, 50>>
    /\ options.threshold = Num(50)
    /\ options.zFilterMin = Undef /\ options.dropTopLayers = Undef
    /\ Voxels(group) = {<<0, 0, 0>>}
    /\ NumRecords(group) = 1

\* Bit (i & 7), from the least significant, of byte (i >> 3) is 1.
BitOfIndex(bits, i) ==
    /\ i \div 8 < Len(bits)
    /\ (bits[(i \div 8) + 1] \div Pow2(i % 8)) % 2 = 1

\* The triples of a bitset volume whose bit is set, whose offset is below
\* numVoxels and whose centre is inside the window of the group.
BitsetExpected(o, g) ==
    {t \in GridTriples(o.gridShape) :
        LET i == LinearIndex(t[1], t[2], t[3], o.gridShape)
            worldZ == o.bounds.z[1] + ((2 * t[3] + 1) * VoxelSizeZ(o)) \div 2
        IN  /\ BitOfIndex(o.occupancyBits, i)
            /\ i < NumVoxelsOf(o)
            /\ g.zFilterMin <= worldZ /\ worldZ <= g.zFilterMax}

\* C20: for a bitset volume the voxel of canonical index i is occupied iff
\* bit (i & 7), least significant first, of byte (i >> 3) is 1 and
\* i < numVoxels: set bits at numVoxels and beyond are ignored and zero bytes
\* give nothing.
C20_BitsetOccupancy ==
    (pc # "loaded" /\ OccEncoding(occ) = "bitset") =>
        /\ Voxels(group) = BitsetExpected(occ, group)
        /\ NumRecords(group) = Cardinality(BitsetExpected(occ, group))

\* A 2x2x2 volume of 7 voxels with bits 1 and 7 set: voxel (0,0,1) alone.
C20_Witness ==
    /\ pc = "rendered"
    /\ OccEncoding(occ) = "bitset"
    /\ occ.gridShape = <<2, 2, 2>>
    /\ occ.occupancyBits = <<130>>
    /\ occ.numVoxels = Num(7)
    /\ options.zFilterMin = Undef /\ options.dropTopLayers = Undef
    /\ Voxels(group) = {<<0, 0, 1>>}

\* The mapping extractZSlice selects for a mode: the named variant, and the
\* layout of variant1 for a mode left out or not recognised.
SliceVariant(mode) == IF mode \in KnownVariants THEN mode ELSE "variant1"

\* C15: extractZSlice throws an out-of-range error when zIndex < 0 or
\* zIndex >= nz, and for every zIndex in [0, nz) returns ny rows of nx cells,
\* cell [y][x] the value at the offset of (x, y, zIndex) under the selected
\* mapping, 0 when the offset is beyond the buffer.
C15_SliceOrOutOfRange ==
    pc \in {"slice", "compare", "volume", "occupancy3d"} =>
        LET variant == SliceVariant(indexingMode)
            d == VariantDims(variant, occ.gridShape)
        IN  /\ slice.threw <=> (zIndex < 0 \/ zIndex >= d.nz)
            /\ ~slice.threw =>
                  /\ DOMAIN slice.map = 1 .. d.ny
                  /\ \A r \in 1 .. d.ny :
                        /\ DOMAIN slice.map[r] = 1 .. d.nx
                        /\ \A c \in 1 .. d.nx :
                              LET i == VariantIndex(variant, d, c - 1, r - 1, zIndex)
                              IN  slice.map[r][c] =
                                     (IF i < Len(occ.occupancy) THEN occ.occupancy[i + 1] ELSE 0)

\* The slice z = 1 of a 2x2x2 volume one value short, 0.9 at voxel (0,0,1):
\* cell [0][0] is 0.9 and cell [1][1], whose offset 7 is beyond the buffer, 0.
C15_Witness ==
    /\ pc = "slice"
    /\ indexingMode = "variant10"
    /\ occ.gridShape = <<2, 2, 2>>
    /\ occ.occupancy = <<0, 90, 0, 0, 0, 0, 0>>
    /\ zIndex = 1
    /\ ~slice.threw
    /\ slice.map = <<<<90, 0>>, <<0, 0>>>>

(***************************************************************************)
(* SpecProjections: the three projection functions called on one scene,    *)
(* projectMeanOccupancy twice, extractZSlice at any zIndex.                *)
(***************************************************************************)
InitProjections ==
    /\ pc = "loaded"
    /\ occ \in LegacyScenes
    /\ indexingMode \in IndexingModes
    /\ zIndex = None
    /\ maxMap = None /\ meanMap = None /\ slice = None
    /\ IdleRender /\ IdleIndex /\ IdleLoad /\ IdleUi

\* A second call of projectMeanOccupancy with a projection array that is
\* not made anew.
CallProjectMeanAgainAppending ==
    /\ pc = "mean"
    /\ meanMap' = meanMap \o ProjectMeanOccupancy(occ.occupancy, occ.gridShape, indexingMode)
    /\ prev' = [occ |-> occ, meanMap |-> meanMap]
    /\ pc' = "meanAgain"
    /\ UNCHANGED uiVars
    /\ UNCHANGED <<occ, options, group, groupCompare, groupVolume, indexVars,
                   indexingMode, zIndex, maxMap, slice, loadVars>>

\* projectMeanOccupancy called a second time with the same arguments.
CallProjectMeanAgain ==
    /\ pc = "mean"
    /\ meanMap' = ProjectMeanOccupancy(occ.occupancy, occ.gridShape, indexingMode)
    /\ prev' = [occ |-> occ, meanMap |-> meanMap]
    /\ pc' = "meanAgain"
    /\ UNCHANGED uiVars
    /\ UNCHANGED <<occ, options, group, groupCompare, groupVolume, indexVars,
                   indexingMode, zIndex, maxMap, slice, loadVars>>

\* extractZSlice called with any zIndex from -1 to past the grid.
CallExtractAnySlice ==
    /\ pc = "meanAgain"
    /\ \E z \in -1 .. MaxDim :
          /\ zIndex' = z
          /\ slice' = ExtractZSlice(occ.occupancy, occ.gridShape, z, indexingMode)
    /\ pc' = "slice"
    /\ UNCHANGED uiVars
    /\ UNCHANGED <<occ, options, group, prev, groupCompare, groupVolume, indexVars,
                   indexingMode, maxMap, meanMap, loadVars>>

NextProjections ==
    CallProjectMax \/ CallProjectMean \/ CallProjectMeanAgain \/ CallExtractAnySlice

SpecProjections == InitProjections /\ [][NextProjections]_vars

\* The sum of a sequence of numbers.
RECURSIVE SeqSum(_)
SeqSum(values) ==
    IF values = <<>> THEN 0 ELSE values[1] + SeqSum(Tail(values))

\* C16: every cell (x,y) of projectMeanOccupancy is the sum over z in [0,nz)
\* of the values whose offset is inside the buffer, divided by nz and not by
\* the number of such z.
C16_MeanDividesByNz ==
    pc \in {"mean", "meanAgain", "slice"} =>
        LET variant == SwitchMean(ModeParameter(indexingMode))
            d == VariantDims(variant, occ.gridShape)
        IN  /\ DOMAIN meanMap = 1 .. d.ny
            /\ \A r \in 1 .. d.ny :
                  /\ DOMAIN meanMap[r] = 1 .. d.nx
                  /\ \A c \in 1 .. d.nx :
                        LET Offset(z) == VariantIndex(variant, d, c - 1, r - 1, z)
                            inRange == [k \in 1 .. d.nz |->
                                           IF Offset(k - 1) < Len(occ.occupancy)
                                           THEN occ.occupancy[Offset(k - 1) + 1]
                                           ELSE 0]
                        IN  meanMap[r][c] = <<SeqSum(inRange), d.nz>>

\* A 2x2x2 volume one value short with 0.9 at voxel (1,1,0): the mean of
\* column (1,1), whose z = 1 is beyond the buffer, is 0.9 / 2.
C16_Witness ==
    /\ pc = "mean"
    /\ indexingMode = "variant10"
    /\ occ.gridShape = <<2, 2, 2>>
    /\ occ.occupancy = <<0, 0, 0, 0, 0, 0, 90>>
    /\ meanMap[2][2] = <<90, 2>>

C12_UnsupportedBitOrderFails ==
    (/\ pc = "rendered"
     /\ MetadataEncoding(metadata) = "bitset"
     /\ MetadataBitorder(metadata) # "lsb0")
        => Voxels(group) = {}

\* C14: no load of a scene whose grid shape has a dimension <= 0, or whose
\* bounds have max <= min, returns a scene, and no voxelization is run on it.
C14_InvalidGeometryFails ==
    pc \in {"returned", "rendered"} => ValidGeometry(metadata)

\* The triples the voxelizer is to emit for a scene, given the threshold and
\* the window of the group.
EmittedSet(o, g) ==
    IF OccEncoding(o) = "bitset" THEN BitsetExpected(o, g) ELSE DenseExpected(o, g)

\* The places (bin, position) of the group that hold the triple t.
PlacesOf(g, t) ==
    {bk \in UNION {{<<b, k>> : k \in 1 .. Len(g.voxelsByZBin[b])} : b \in DOMAIN g.voxelsByZBin} :
        LET r == g.voxelsByZBin[bk[1]][bk[2]] IN <<r.x, r.y, r.z>> = t}

\* C21: the emitted voxels are partitioned by height band: every emitted
\* voxel is in exactly one group, the one keyed by floor(worldZ / 0.1) of its
\* own centre height, no group is empty, and the union of the groups is the
\* emitted set.
C21_PartitionByHeightBand ==
    pc # "loaded" =>
        /\ \A b \in DOMAIN group.voxelsByZBin :
              /\ Len(group.voxelsByZBin[b]) > 0
              /\ \A k \in 1 .. Len(group.voxelsByZBin[b]) :
                    LET r == group.voxelsByZBin[b][k]
                    IN  /\ 2 * r.worldZ = 2 * occ.bounds.z[1] + (2 * r.z + 1) * VoxelSizeZ(occ)
                        /\ b * BinSize <= r.worldZ
                        /\ r.worldZ < (b + 1) * BinSize
        /\ \A t \in EmittedSet(occ, group) : Cardinality(PlacesOf(group, t)) = 1
        /\ Voxels(group) = EmittedSet(occ, group)

\* Two layers centred at 0 m and 2 m, both occupied: two bands, 0 and 20, of
\* one voxel each.
C21_Witness ==
    /\ pc = "rendered"
    /\ OccEncoding(occ) = "raw"
    /\ occ.gridShape = <<1, 1, 2>> /\ occ.occupancy = <<90, 90>>
    /\ options.threshold = Undef /\ options.zFilterMin = Undef
    /\ DOMAIN group.voxelsByZBin = {0, 20}
    /\ Len(group.voxelsByZBin[0]) = 1 /\ group.voxelsByZBin[0][1].z = 0
    /\ Len(group.voxelsByZBin[20]) = 1 /\ group.voxelsByZBin[20][1].z = 1

\* C22: every record emitted by visualizeOccupancyWithCubes has grid
\* coordinates inside the grid, 0 <= x < nx, 0 <= y < ny, 0 <= z < nz, for
\* dense volumes and for bitset volumes with any numVoxels and any bitset
\* length the loader reports.
C22_RecordsInsideGrid ==
    pc = "rendered" => Voxels(group) \subseteq GridTriples(result.gridShape)

(***************************************************************************)
(* SpecCompare: the compare app after init(), its selector and pane-mode   *)
(* handlers, and the completions of the loads they await.                  *)
(***************************************************************************)
\* UI events handled in one run.
MaxEvents == 3

\* The variables of the voxelizers, the projections and the loaders.
coreVars == <<occ, options, group, prev, groupCompare, groupVolume,
              indexVars, projVars, loadVars>>

IdleCore ==
    /\ occ = None /\ IdleRender /\ IdleIndex /\ IdleProjection /\ IdleLoad

\* this.pcOptions: key -> url of the scene's point clouds.
PcOptions == [lidar |-> "lidar.bin", radar |-> "radar.bin", fused |-> "fused.bin"]

PcKeys == DOMAIN PcOptions

\* _pickDefaultKey(null, 0) and _pickDefaultKey(null, 1)
DefaultKeyA == "lidar"

DefaultKeyB == "radar"

\* The state of the app when init() has created the renderer: pane B is
\* loaded in 3-pane mode only.
CompareAfterInit(panes) ==
    LET loaded == IF panes = 3 THEN {PcOptions[DefaultKeyA], PcOptions[DefaultKeyB]}
                  ELSE {PcOptions[DefaultKeyA]}
    IN  [panes |-> panes,
         selectA |-> DefaultKeyA,
         selectB |-> DefaultKeyB,
         shownA |-> PcOptions[DefaultKeyA],
         shownB |-> IF panes = 3 THEN PcOptions[DefaultKeyB] ELSE None,
         pcCacheByUrl |-> loaded,
         loads |-> [u \in {PcOptions[k] : k \in PcKeys} |-> IF u \in loaded THEN 1 ELSE 0],
         tasks |-> {},
         events |-> 0,
         failed |-> FALSE]

InitCompare ==
    /\ pc = "compare"
    /\ \E panes \in {2, 3} : compareApp = CompareAfterInit(panes)
    /\ view = None /\ renderer = None /\ panels = None /\ autoheight = None
    /\ IdleCore

\* _loadPointCloudByKey up to its first suspension: a cache hit returns the
\* data, a miss calls loadPointCloudData(url) and awaits it.
CacheHit(app, key) == PcOptions[key] \in app.pcCacheByUrl

CountLoad(app, url) == [app EXCEPT !.loads[url] = @ + 1]

\* A handler that awaits the load of url.
Task(app, kind, url) ==
    [n |-> app.events, kind |-> kind, url |-> url,
     panes |-> app.panes, keyA |-> app.selectA, keyB |-> app.selectB]

\* this.renderer.setPointCloud(0, data) / (1, data)
SetPointCloud(app, viewIndex, url) ==
    IF viewIndex = 0 THEN [app EXCEPT !.shownA = url] ELSE [app EXCEPT !.shownB = url]

\* _createRenderer(panes, pcAData, pcBData)
CreateRenderer(app, panes, urlA, urlB) ==
    [app EXCEPT !.shownA = urlA, !.shownB = IF panes = 3 THEN urlB ELSE None]

\* The pane-mode handler from the load of pane B on: pane A's data is urlA.
PaneModeLoadB(app, panes, keyA, keyB) ==
    IF panes = 3 /\ ~CacheHit(app, keyB)
    THEN [CountLoad(app, PcOptions[keyB]) EXCEPT
             !.tasks = @ \cup {[n |-> app.events, kind |-> "panesB", url |-> PcOptions[keyB],
                                panes |-> panes, keyA |-> keyA, keyB |-> keyB]}]
    ELSE CreateRenderer(app, panes, PcOptions[keyA], PcOptions[keyB])

\* pcSelectAEl 'change'
ChangeSelectA ==
    /\ pc = "compare"
    /\ compareApp.events < MaxEvents
    /\ \E key \in PcKeys \ {compareApp.selectA} :
          LET app == [compareApp EXCEPT !.selectA = key, !.events = @ + 1]
          IN  compareApp' =
                  IF CacheHit(app, key) THEN SetPointCloud(app, 0, PcOptions[key])
                  ELSE [CountLoad(app, PcOptions[key]) EXCEPT
                           !.tasks = @ \cup {Task(app, "selectA", PcOptions[key])}]
    /\ UNCHANGED <<pc, coreVars, view, renderer, panels, autoheight>>

\* pcSelectBEl 'change': the selector is disabled outside 3-pane mode.
ChangeSelectB ==
    /\ pc = "compare"
    /\ compareApp.events < MaxEvents
    /\ compareApp.panes = 3
    /\ \E key \in PcKeys \ {compareApp.selectB} :
          LET app == [compareApp EXCEPT !.selectB = key, !.events = @ + 1]
          IN  compareApp' =
                  IF CacheHit(app, key) THEN SetPointCloud(app, 1, PcOptions[key])
                  ELSE [CountLoad(app, PcOptions[key]) EXCEPT
                           !.tasks = @ \cup {Task(app, "selectB", PcOptions[key])}]
    /\ UNCHANGED <<pc, coreVars, view, renderer, panels, autoheight>>

\* paneModeEl 'change'
ChangePaneMode ==
    /\ pc = "compare"
    /\ compareApp.events < MaxEvents
    /\ LET panes == IF compareApp.panes = 3 THEN 2 ELSE 3
           app == [compareApp EXCEPT !.panes = panes, !.events = @ + 1]
       IN  compareApp' =
               IF CacheHit(app, app.selectA)
               THEN PaneModeLoadB(app, panes, app.selectA, app.selectB)
               ELSE [CountLoad(app, PcOptions[app.selectA]) EXCEPT
                        !.tasks = @ \cup {Task(app, "panesA", PcOptions[app.selectA])}]
    /\ UNCHANGED <<pc, coreVars, view, renderer, panels, autoheight>>

\* loadPointCloudData(url) resolves: the awaiting handler stores the data in
\* the cache and goes on.
CompleteLoad ==
    /\ pc = "compare"
    /\ \E task \in compareApp.tasks :
          LET app == [compareApp EXCEPT !.tasks = @ \ {task},
                                        !.pcCacheByUrl = @ \cup {task.url}]
          IN  compareApp' =
                  CASE task.kind = "selectA" -> SetPointCloud(app, 0, task.url)
                    [] task.kind = "selectB" -> SetPointCloud(app, 1, task.url)
                    [] task.kind = "panesA" ->
                          PaneModeLoadB(app, task.panes, task.keyA, task.keyB)
                    [] task.kind = "panesB" ->
                          CreateRenderer(app, task.panes, PcOptions[task.keyA], task.url)
    /\ UNCHANGED <<pc, coreVars, view, renderer, panels, autoheight>>

\* loadPointCloudData(url) rejects: the handler ends with the rejection.
FailLoad ==
    /\ pc = "compare"
    /\ \E task \in compareApp.tasks :
          compareApp' = [compareApp EXCEPT !.tasks = @ \ {task}, !.failed = TRUE]
    /\ UNCHANGED <<pc, coreVars, view, renderer, panels, autoheight>>

NextCompare ==
    ChangeSelectA \/ ChangeSelectB \/ ChangePaneMode \/ CompleteLoad \/ FailLoad

SpecCompare == InitCompare /\ [][NextCompare]_vars

\* C23: whenever no point-cloud load is in flight (and none has failed),
\* pane A shows the point cloud of the key selected in its selector, and so
\* does pane B in 3-pane mode, whatever the order in which the loads complete.
C23_ShownIsSelected ==
    (compareApp.tasks = {} /\ ~compareApp.failed) =>
        /\ compareApp.shownA = PcOptions[compareApp.selectA]
        /\ compareApp.panes = 3 => compareApp.shownB = PcOptions[compareApp.selectB]

\* C24: loadPointCloudData is invoked at most once for each URL.
C24_OneLoadPerUrl ==
    \A u \in DOMAIN compareApp.loads : compareApp.loads[u] <= 1

(***************************************************************************)
(* SpecManifests: loadOccupancyData of the 3D occupancy app on documents   *)
(* that are manifests naming each other, metadata, or neither; every fetch *)
(* completes.                                                              *)
(***************************************************************************)
ManifestUrls == {"scene.json", "occupancy.json"}

\* The documents a URL may serve: a manifest of either form naming a URL,
\* a document of neither form, and metadata of a raw file.
ManifestBodies ==
    {[occupancy |-> [url |-> u]] : u \in ManifestUrls}
    \cup {[modalities |-> [occupancy |-> [json |-> u]]] : u \in ManifestUrls}
    \cup {[title |-> "scene"]}
    \cup {RawMetadata(<<1, 1, 1>>, e) : e \in BOOLEAN}

\* The document served at u names u itself.
NamesItself(u, body) == ~IsOccupancyMeta(body) /\ HasNextUrl(body) /\ NextUrl(body) = u

\* Servers whose manifests name the other URL (two manifests naming each
\* other among them), with a raw file of one value and 0 or 1 byte more.
ManifestServers ==
    {[docs |-> [u \in ManifestUrls |->
                   IF u = "scene.json" THEN [ok |-> sceneOk, body |-> sceneBody]
                   ELSE [ok |-> metaOk, body |-> metaBody]],
      binOk |-> binOk, file |-> RawFile(<<90>>, tail)] :
        sceneOk \in BOOLEAN, metaOk \in BOOLEAN, binOk \in BOOLEAN, tail \in {0, 1},
        sceneBody \in {b \in ManifestBodies : ~NamesItself("scene.json", b)},
        metaBody \in {b \in ManifestBodies : ~NamesItself("occupancy.json", b)}}

InitManifests ==
    /\ pc = "fetchMetadata"
    /\ server \in ManifestServers
    /\ loader = "occupancy3d"
    /\ jsonPath \in ManifestUrls
    /\ metadata = Undef
    /\ warned = FALSE
    /\ result = None
    /\ occ = None
    /\ IdleRender /\ IdleIndex /\ IdleProjection /\ IdleUi

\* Every fetch completes, and the app goes on after the load.
SpecManifests == InitManifests /\ [][NextLoad]_vars /\ WF_vars(NextLoad)

\* The call of loadOccupancyData has returned or thrown (and the app has
\* shown the scene or the error).
LoadEnded == pc \in {"returned", "threw", "rendered", "error"}

\* C25: loadOccupancyData terminates, returning data or throwing, for every
\* finite set of manifests whose fetches complete, manifests naming each
\* other included.
C25_LoadTerminates == <>LoadEnded

\* A manifest with neither occupancy metadata nor a follow-up URL ends with
\* the error 'Unrecognized occupancy manifest format.'.
UnrecognizedManifestThrows ==
    (/\ pc = "fetchMetadata"
     /\ server.docs[jsonPath].ok
     /\ ~IsOccupancyMeta(server.docs[jsonPath].body)
     /\ ~HasNextUrl(server.docs[jsonPath].body))
        ~> (pc \in {"threw", "error"}
              /\ result.error = "Unrecognized occupancy manifest format.")

(***************************************************************************)
(* SpecView: an OccupancyView on a scene, and the calls of its setters.    *)
(***************************************************************************)
\* this.threshold = 0.001, in units of 0.001
DefaultViewThreshold == 1

\* this.alpha = 0.8, in units of 0.01
DefaultAlpha == 80

\* Scenes of the 2D view: every grid shape, layers 2 m high from -1 m up,
\* every value 0.9.
ViewScenes ==
    {LegacyScene(shape, [i \in 1 .. NumCells(shape) |-> 90], ZBounds(-20, 40, shape[3])) :
        shape \in SceneShapes}

\* render(): the map of the current view mode, or the error extractZSlice
\* threw.
Render(v, o) ==
    CASE v.viewMode = "max" ->
            [v EXCEPT !.threw = FALSE,
                      !.occupancy2D = ProjectMaxOccupancy(o.occupancy, o.gridShape, v.indexingMode)]
      [] v.viewMode = "mean" ->
            [v EXCEPT !.threw = FALSE,
                      !.occupancy2D = ProjectMeanOccupancy(o.occupancy, o.gridShape, v.indexingMode)]
      [] v.viewMode = "slice" ->
            LET r == ExtractZSlice(o.occupancy, o.gridShape, v.zSlice, v.indexingMode)
            IN  [v EXCEPT !.threw = r.threw,
                          !.occupancy2D = IF r.threw THEN Undef ELSE r.map]

\* The fields the constructor sets, and the render() of resizeCanvas().
NewOccupancyView(o) ==
    Render([viewMode |-> "mean",
            zSlice |-> o.gridShape[3] \div 2,
            threshold |-> DefaultViewThreshold,
            colormap |-> "turbo",
            alpha |-> DefaultAlpha,
            indexingMode |-> "variant10",
            occupancy2D |-> Undef,
            threw |-> FALSE,
            call |-> <<"constructor">>], o)

InitView ==
    /\ pc = "view"
    /\ occ \in ViewScenes
    /\ view = NewOccupancyView(occ)
    /\ compareApp = None /\ renderer = None /\ panels = None /\ autoheight = None
    /\ IdleRender /\ IdleIndex /\ IdleProjection /\ IdleLoad

\* The clamp with no lower end.
ClampZSliceUpperOnly(zArg, maxZ) == Min(maxZ, zArg)

\* Math.max(0, Math.min(maxZ, Math.floor(zIndex))), zIndex an integer
ClampZSlice(zArg, maxZ) == Max(0, Min(maxZ, zArg))

\* setViewMode(mode): a mode that is not one of the three is ignored.
SetViewMode ==
    /\ pc = "view"
    /\ \E mode \in {"max", "mean", "slice", "volume"} :
          view' = IF mode \in {"max", "mean", "slice"}
                  THEN Render([view EXCEPT !.viewMode = mode, !.call = <<"setViewMode", mode>>], occ)
                  ELSE [view EXCEPT !.call = <<"setViewMode", mode>>]
    /\ UNCHANGED <<pc, coreVars, compareApp, renderer, panels, autoheight>>

\* What setZSlice(zIndex) does to a view.
ZSliceSet(v, o, zArg, call) ==
    LET maxZ == o.gridShape[3] - 1
        w == [v EXCEPT !.zSlice = ClampZSlice(zArg, maxZ), !.call = call]
    IN  IF w.viewMode = "slice" THEN Render(w, o) ELSE w

\* setZSlice(zIndex), zIndex any integer from -1 to past the grid.
SetZSlice ==
    /\ pc = "view"
    /\ \E zArg \in -1 .. MaxDim + 1 :
          view' = ZSliceSet(view, occ, zArg, <<"setZSlice", zArg>>)
    /\ UNCHANGED <<pc, coreVars, compareApp, renderer, panels, autoheight>>

\* worldZToIndex(worldZ, zBounds, nz)
WorldZToIndex(worldZ, zBounds, nz) ==
    LET zMin == zBounds[1]
        zMax == zBounds[2]
        index == ((worldZ - zMin) * nz) \div (zMax - zMin)
    IN  Max(0, Min(nz - 1, index))

\* setZSliceByWorldZ(worldZ), worldZ from 1 m below the grid to 1 m above it
\* in steps of 1 m.
SetZSliceByWorldZ ==
    /\ pc = "view"
    /\ \E k \in -2 .. 2 * MaxDim + 1 :
          LET worldZ == 20 * k
          IN  view' = ZSliceSet(view, occ,
                                WorldZToIndex(worldZ, occ.bounds.z, occ.gridShape[3]),
                                <<"setZSliceByWorldZ", worldZ>>)
    /\ UNCHANGED <<pc, coreVars, compareApp, renderer, panels, autoheight>>

SetThreshold ==
    /\ pc = "view"
    /\ \E threshold \in {DefaultViewThreshold, 500} :
          view' = Render([view EXCEPT !.threshold = threshold,
                                      !.call = <<"setThreshold", threshold>>], occ)
    /\ UNCHANGED <<pc, coreVars, compareApp, renderer, panels, autoheight>>

SetColormap ==
    /\ pc = "view"
    /\ \E colormap \in {"turbo", "viridis"} :
          view' = Render([view EXCEPT !.colormap = colormap,
                                      !.call = <<"setColormap", colormap>>], occ)
    /\ UNCHANGED <<pc, coreVars, compareApp, renderer, panels, autoheight>>

SetAlpha ==
    /\ pc = "view"
    /\ \E alpha \in {DefaultAlpha, 100} :
          view' = Render([view EXCEPT !.alpha = alpha, !.call = <<"setAlpha", alpha>>], occ)
    /\ UNCHANGED <<pc, coreVars, compareApp, renderer, panels, autoheight>>

\* setIndexingMode(mode), mode one of the ten variants.
SetIndexingMode ==
    /\ pc = "view"
    /\ \E mode \in KnownVariants :
          view' = Render([view EXCEPT !.indexingMode = mode,
                                      !.call = <<"setIndexingMode", mode>>], occ)
    /\ UNCHANGED <<pc, coreVars, compareApp, renderer, panels, autoheight>>

NextView ==
    \/ SetViewMode \/ SetZSlice \/ SetZSliceByWorldZ
    \/ SetThreshold \/ SetColormap \/ SetAlpha \/ SetIndexingMode

SpecView == InitView /\ [][NextView]_vars

\* C26: in every reachable state of an OccupancyView, after any sequence of
\* setter calls, viewMode is one of 'max', 'mean', 'slice' and zSlice is an
\* integer with 0 <= zSlice <= gridShape[2] - 1.
C26_ViewStateInRange ==
    /\ view.viewMode \in {"max", "mean", "slice"}
    /\ view.zSlice \in 0 .. occ.gridShape[3] - 1

\* setZSlice(-1) on a grid of two layers leaves zSlice at 0.
C26_Witness ==
    /\ occ.gridShape = <<1, 1, 2>>
    /\ view.call = <<"setZSlice", -1>>
    /\ view.zSlice = 0
    /\ view.viewMode = "slice"

\* C27: render() never throws the Z-index-out-of-range error: the zSlice
\* handed to extractZSlice is within the nz extractZSlice derives for the
\* current indexing mode.
C27_RenderNeverThrows == ~view.threw

(***************************************************************************)
(* SpecRenderer: the callbacks a 3D renderer registers in init(), the      *)
(* browser events that run them, and dispose().                            *)
(***************************************************************************)
RendererKinds == {"Occupancy3DRenderer", "VolumeRenderer"}

\* Two of the keys of this.keys, and a key that is not one of them.
MoveKeys == {"KeyW", "ArrowLeft"}

PressedKeys == MoveKeys \cup {"KeyZ"}

\* CSS sizes the canvas may have.
CanvasSizes == {"wide", "narrow", "square"}

\* The renderer when its constructor has run init(): the key and resize
\* listeners are on window, the first frame is requested, and the
\* Occupancy3DRenderer observes its canvas.
NewRenderer(kind, size) ==
    [kind |-> kind,
     disposed |-> FALSE,
     animationId |-> TRUE,
     keyListeners |-> TRUE,
     resizeListener |-> TRUE,
     resizeObserver |-> kind = "Occupancy3DRenderer",
     resizeRaf |-> FALSE,
     keys |-> [k \in MoveKeys |-> FALSE],
     canvasSize |-> size,
     rendererSize |-> size,
     ranAfterDispose |-> {}]

InitRenderer ==
    /\ pc = "renderer"
    /\ \E kind \in RendererKinds, size \in CanvasSizes : renderer = NewRenderer(kind, size)
    /\ compareApp = None /\ view = None /\ panels = None /\ autoheight = None
    /\ IdleCore

\* A callback of the renderer runs: noted when the renderer was disposed.
Ran(r, callback) ==
    IF r.disposed THEN [r EXCEPT !.ranAfterDispose = @ \cup {callback}] ELSE r

\* onResize() / onWindowResize()
OnResize(r) == [r EXCEPT !.rendererSize = r.canvasSize]

\* The requested animation frame fires: animate() requests the next one,
\* and the Occupancy3DRenderer resizes when the canvas size has changed.
AnimationFrame ==
    /\ pc = "renderer"
    /\ renderer.animationId
    /\ renderer' =
          LET r == Ran(renderer, "animate")
          IN  IF r.kind = "Occupancy3DRenderer" /\ r.canvasSize # r.rendererSize
              THEN OnResize(r) ELSE r
    /\ UNCHANGED <<pc, coreVars, compareApp, view, panels, autoheight>>

\* A keydown event on window.
KeyDown ==
    /\ pc = "renderer"
    /\ renderer.keyListeners
    /\ \E key \in PressedKeys :
          renderer' =
              LET r == Ran(renderer, "handleKeyDown")
              IN  IF key \in DOMAIN r.keys THEN [r EXCEPT !.keys[key] = TRUE] ELSE r
    /\ UNCHANGED <<pc, coreVars, compareApp, view, panels, autoheight>>

\* A keyup event on window.
KeyUp ==
    /\ pc = "renderer"
    /\ renderer.keyListeners
    /\ \E key \in PressedKeys :
          renderer' =
              LET r == Ran(renderer, "handleKeyUp")
              IN  IF key \in DOMAIN r.keys THEN [r EXCEPT !.keys[key] = FALSE] ELSE r
    /\ UNCHANGED <<pc, coreVars, compareApp, view, panels, autoheight>>

\* The window is resized: the canvas gets another size and the listeners
\* of 'resize' run.
WindowResize ==
    /\ pc = "renderer"
    /\ \E size \in CanvasSizes \ {renderer.canvasSize} :
          renderer' =
              LET r == [renderer EXCEPT !.canvasSize = size]
              IN  IF r.resizeListener THEN OnResize(Ran(r, "onResize")) ELSE r
    /\ UNCHANGED <<pc, coreVars, compareApp, view, panels, autoheight>>

\* The ResizeObserver reports: schedule() requests a frame unless one is
\* pending.
ResizeObserved ==
    /\ pc = "renderer"
    /\ renderer.resizeObserver
    /\ ~renderer.resizeRaf
    /\ renderer' = [renderer EXCEPT !.resizeRaf = TRUE]
    /\ UNCHANGED <<pc, coreVars, compareApp, view, panels, autoheight>>

\* The frame schedule() requested fires.
ResizeFrame ==
    /\ pc = "renderer"
    /\ renderer.resizeRaf
    /\ renderer' = OnResize(Ran([renderer EXCEPT !.resizeRaf = FALSE], "resizeFrame"))
    /\ UNCHANGED <<pc, coreVars, compareApp, view, panels, autoheight>>

\* dispose(): the frame of animate() is cancelled, the key listeners are
\* removed, the observer is disconnected. The 'resize' listener stays: the
\* Occupancy3DRenderer does not remove it and the VolumeRenderer passes
\* removeEventListener a function that was never added. The frame of
\* schedule() is not cancelled.
Dispose ==
    /\ pc = "renderer"
    /\ ~renderer.disposed
    /\ renderer' = [renderer EXCEPT !.disposed = TRUE,
                                    !.animationId = FALSE,
                                    !.keyListeners = FALSE,
                                    !.resizeObserver = FALSE]
    /\ UNCHANGED <<pc, coreVars, compareApp, view, panels, autoheight>>

NextRenderer ==
    \/ AnimationFrame \/ KeyDown \/ KeyUp \/ WindowResize
    \/ ResizeObserved \/ ResizeFrame \/ Dispose

SpecRenderer == InitRenderer /\ [][NextRenderer]_vars

\* C28: after dispose() of a 3D renderer no callback of that renderer runs
\* again: no animation frame, no key handler, no window-resize handler and
\* no pending resize-observer frame.
C28_NoCallbackAfterDispose == renderer.ranAfterDispose = {}

\* After dispose() no animation frame and no key handler runs.
NoFrameOrKeyAfterDispose ==
    renderer.ranAfterDispose \cap {"animate", "handleKeyDown", "handleKeyUp"} = {}

(***************************************************************************)
(* SpecInit: App.init() of the occupancy viewer and of the compare app,    *)
(* and the panels (loading, main, error) it shows and hides.               *)
(***************************************************************************)
Apps == {"occupancy", "compare"}

\* ?mode= of the occupancy viewer, ?panes= of the compare app.
AppModes(app) == IF app = "occupancy" THEN {"2d", "3d"} ELSE {"panes2", "panes3"}

\* The panels as the page's markup shows them before init() runs.
InitialPanels ==
    {[app |-> app, mode |-> mode, loading |-> l, main |-> m, error |-> e,
      message |-> ""] :
        app \in Apps, mode \in {"2d", "3d", "panes2", "panes3"}, l \in BOOLEAN,
        m \in BOOLEAN, e \in BOOLEAN}

\* The occupancy viewer loads with dataLoader.js from the servers of a raw
\* file; the compare app loads its scene with loadCompareScene.
InitApp ==
    /\ pc = "init"
    /\ panels \in {p \in InitialPanels : p.mode \in AppModes(p.app)}
    /\ compareApp = None /\ view = None /\ renderer = None /\ autoheight = None
    /\ occ = None /\ IdleRender /\ IdleIndex /\ IdleProjection
    /\ IF panels.app = "occupancy"
       THEN /\ server \in {s \in Servers : IsRawFile(s.file)}
            /\ loader = "legacy"
            /\ jsonPath = "occupancy.json"
            /\ metadata = None
            /\ warned = FALSE
            /\ result = None
       ELSE IdleLoad

\* showLoading()
ShowLoading(p) == [p EXCEPT !.loading = TRUE, !.main = FALSE, !.error = FALSE]

\* hideLoading()
HideLoading(p) == [p EXCEPT !.loading = FALSE]

\* showMainContent() / showMain()
ShowMainContent(p) == [p EXCEPT !.main = TRUE]

\* showError(message): the occupancy viewer shows the error panel and hides
\* the loading panel; the compare app hides the main view as well.
ShowErrorPanel(p, message) ==
    IF p.app = "occupancy"
    THEN [p EXCEPT !.error = TRUE, !.message = message, !.loading = FALSE]
    ELSE [p EXCEPT !.loading = FALSE, !.main = FALSE, !.error = TRUE,
                   !.message = message]

\* init() up to its first await: showLoading(), then the load is started.
AppStart ==
    /\ pc = "init"
    /\ panels' = ShowLoading(panels)
    /\ pc' = IF panels.app = "occupancy" THEN "fetchMetadata" ELSE "loadCompareScene"
    /\ UNCHANGED <<coreVars, compareApp, view, renderer, autoheight>>

\* loadOccupancyData returned: hideLoading(); showMainContent().
AppShowMain ==
    /\ pc = "returned"
    /\ panels.app = "occupancy"
    /\ panels' = ShowMainContent(HideLoading(panels))
    /\ pc' = "main"
    /\ UNCHANGED <<coreVars, compareApp, view, renderer, autoheight>>

\* init2D / init3D: the view or the renderer is constructed, or its
\* construction (or the import of volumeRenderer.js) throws and the catch
\* block of init() calls showError.
AppInitView ==
    /\ pc = "main"
    /\ \E constructed \in BOOLEAN :
          IF constructed
          THEN pc' = "rendered" /\ UNCHANGED panels
          ELSE /\ panels' = ShowErrorPanel(panels, "renderer")
               /\ pc' = "error"
    /\ UNCHANGED <<coreVars, compareApp, view, renderer, autoheight>>

\* loadOccupancyData threw: catch (error) { showError(error.message) }
AppCatchLoad ==
    /\ pc = "threw"
    /\ panels.app = "occupancy"
    /\ panels' = ShowErrorPanel(panels, result.error)
    /\ pc' = "error"
    /\ UNCHANGED <<coreVars, compareApp, view, renderer, autoheight>>

\* The compare app: loadCompareScene returns (hideLoading, showMain) or
\* throws (showError).
CompareLoadScene ==
    /\ pc = "loadCompareScene"
    /\ \E loaded \in BOOLEAN :
          IF loaded
          THEN /\ panels' = ShowMainContent(HideLoading(panels))
               /\ pc' = "comparePointClouds"
          ELSE /\ panels' = ShowErrorPanel(panels, "Failed to load scene")
               /\ pc' = "error"
    /\ UNCHANGED <<coreVars, compareApp, view, renderer, autoheight>>

\* The compare app: the scene names no point cloud, or the load of point
\* cloud A (of B too with three panes) fails, or they are loaded.
CompareLoadPointClouds ==
    /\ pc = "comparePointClouds"
    /\ \E outcome \in {"No pointcloud entries found in scene manifest.",
                       "Failed to load point cloud A", "loaded"}
                      \cup (IF panels.mode = "panes3"
                            THEN {"Failed to load point cloud B"} ELSE {}) :
          IF outcome = "loaded"
          THEN pc' = "compareRenderer" /\ UNCHANGED panels
          ELSE /\ panels' = ShowErrorPanel(panels, outcome)
               /\ pc' = "error"
    /\ UNCHANGED <<coreVars, compareApp, view, renderer, autoheight>>

\* The compare app: _createRenderer and _installUiHandlers, or the throw
\* of the renderer's construction.
CompareCreateRenderer ==
    /\ pc = "compareRenderer"
    /\ \E constructed \in BOOLEAN :
          IF constructed
          THEN pc' = "rendered" /\ UNCHANGED panels
          ELSE /\ panels' = ShowErrorPanel(panels, "renderer")
               /\ pc' = "error"
    /\ UNCHANGED <<coreVars, compareApp, view, renderer, autoheight>>

NextInit ==
    \/ AppStart \/ FetchMetadata \/ FetchBinary \/ Decode
    \/ AppShowMain \/ AppInitView \/ AppCatchLoad
    \/ CompareLoadScene \/ CompareLoadPointClouds \/ CompareCreateRenderer

SpecInit == InitApp /\ [][NextInit]_vars

\* init() has finished.
InitFinished == pc \in {"rendered", "error"}

\* C29: when an app's init() finishes, on every path, the loading
\* indicator is hidden and exactly one of the main view and the error panel
\* is visible.
C29_OnePanelAfterInit ==
    InitFinished => ~panels.loading /\ (panels.main # panels.error)

\* The compare app ends init() with one panel, and both apps end it with
\* the loading indicator hidden.
ComparePanelsAfterInit ==
    InitFinished =>
        /\ ~panels.loading
        /\ panels.app = "compare" => panels.main # panels.error

\* The occupancy viewer shows the main view and the error panel together
\* only when the view's construction failed after a successful load.
BothPanelsOnlyAfterLoad ==
    InitFinished /\ panels.main /\ panels.error =>
        panels.app = "occupancy" /\ panels.message = "renderer"

(***************************************************************************)
(* SpecAutoheight: iframe_autoheight.js, in its shared form and in the     *)
(* form that clamps the height to the viewport. Heights are in pixels.     *)
(***************************************************************************)
AutoheightVersions == {"shared", "clamped"}

\* scrollHeight / offsetHeight of the document element and of the body.
LayoutHeights == {0, 1, 2, 3, 200, 201, 600}

\* max(visualViewport.height, innerHeight)
ViewportHeights == {0, 256, 400}

Layouts ==
    [de : LayoutHeights, body : LayoutHeights, viewport : ViewportHeights]

AbsDiff(a, b) == IF a >= b THEN a - b ELSE b - a

\* measureHeight()
MeasureHeight(layout) == Max(Max(layout.de, layout.body), 0)

MinClampedHeight == 200

MinCap == 320

\* clampHeight(h) of the clamping form; the shared form posts what it
\* measured.
ClampHeight(version, h, viewport) ==
    IF version = "shared" THEN h
    ELSE IF h <= 0 THEN 0
    ELSE IF viewport <= 0 THEN h
    ELSE LET cap == Max(MinCap, (viewport * 5) \div 4)
         IN  Max(MinClampedHeight, Min(h, cap))

\* if (!h || Math.abs(h - lastSent) < 2) return;
ShouldPostAnyChange(h, lastSent) == ~(h = 0 \/ AbsDiff(h, lastSent) < 1)

ShouldPost(h, lastSent) == ~(h = 0 \/ AbsDiff(h, lastSent) < 2)

\* The script has run: the listeners are installed and sendHeightSoon() has
\* been called once.
InitAutoheight ==
    /\ pc = "autoheight"
    /\ \E version \in AutoheightVersions, layout \in Layouts :
          autoheight = [version |-> version, layout |-> layout, lastSent |-> 0,
                        rafId |-> TRUE, pending |-> 1,
                        posted |-> Undef, previous |-> Undef]
    /\ compareApp = None /\ view = None /\ renderer = None /\ panels = None
    /\ IdleCore

AutoheightEvents == {"load", "resize", "DOMContentLoaded", "ResizeObserver", "loadingdone"}

\* The page is laid out again: the heights change.
LayoutChange ==
    /\ pc = "autoheight"
    /\ \E layout \in Layouts \ {autoheight.layout} :
          autoheight' = [autoheight EXCEPT !.layout = layout]
    /\ UNCHANGED <<pc, coreVars, compareApp, view, renderer, panels>>

\* sendHeightSoon(): nothing when a frame is requested already.
SendHeightSoon(a) ==
    IF a.rafId THEN a
    ELSE [a EXCEPT !.rafId = TRUE, !.pending = @ + 1]

\* One of the events the script listens to.
HandleEvent ==
    /\ pc = "autoheight"
    /\ \E event \in AutoheightEvents : autoheight' = SendHeightSoon(autoheight)
    /\ UNCHANGED <<pc, coreVars, compareApp, view, renderer, panels>>

\* The requested frame: the height is measured and posted to the parent
\* when it is not 0 and is 2 or more away from the last one sent.
HeightFrame ==
    /\ pc = "autoheight"
    /\ autoheight.pending > 0
    /\ LET a == autoheight
           h == ClampHeight(a.version, MeasureHeight(a.layout), a.layout.viewport)
       IN  autoheight' =
               IF ShouldPost(h, a.lastSent)
               THEN [a EXCEPT !.rafId = FALSE, !.pending = @ - 1, !.lastSent = h,
                              !.posted = Num(h), !.previous = a.posted]
               ELSE [a EXCEPT !.rafId = FALSE, !.pending = @ - 1]
    /\ UNCHANGED <<pc, coreVars, compareApp, view, renderer, panels>>

NextAutoheight == LayoutChange \/ HandleEvent \/ HeightFrame

SpecAutoheight == InitAutoheight /\ [][NextAutoheight]_vars

\* C30: for any sequence of events at most one animation-frame callback is
\* pending, and every height posted to the parent is not 0 and is 2 or more
\* away from the height posted before it.
C30_OneFrameAndDistinctHeights ==
    /\ autoheight.pending <= 1
    /\ IsFinite(autoheight.posted) =>
          /\ autoheight.posted[1] # 0
          /\ IsFinite(autoheight.previous) =>
                AbsDiff(autoheight.posted[1], autoheight.previous[1]) >= 2

\* A second height has been posted, in the clamping form, while an event
\* has a frame pending.
C30_Witness ==
    /\ autoheight.version = "clamped"
    /\ autoheight.previous = Num(200)
    /\ autoheight.posted = Num(320)
    /\ autoheight.pending = 1

====
